---- MODULE Spec2Model ----
(***************************************************************************)
(* Model of the event-driven orchestration core of the AI Scientist:       *)
(* the message bus (src/src/core/bus.py), the Director state machine       *)
(* (src/src/core/scientist.py) and the Analysis agent                      *)
(* (src/src/agents/sci/analysis.py).                                       *)
(*                                                                         *)
(* The asyncio event loop is modelled by the FIFO sequence `ready` of      *)
(* tasks that are ready to run: asyncio.create_task appends to it and the  *)
(* loop always runs the task at its head.  A handler without a real        *)
(* suspension point (every Director handler, the Analysis handler) runs    *)
(* as one atomic step.  The Planner/Reviewer and the Executor, whose       *)
(* sources are not part of src/, are modelled from the specification as    *)
(* long-running tasks that leave the ready queue when started and publish  *)
(* their follow-up events at an arbitrary later moment.                    *)
(***************************************************************************)
EXTENDS Integers, Sequences, FiniteSets, TLC

(***************************************************************************)
(* Bounds of the model.                                                    *)
(***************************************************************************)
MaxBudget == 4        \* budget_max ranges over 1..MaxBudget
MaxInitial == 3       \* the initial batch holds 0..MaxInitial configurations
MaxCyclesArg == 2     \* the max_cycles argument ranges over 0..MaxCyclesArg

(***************************************************************************)
(* Policy constants of the program.                                        *)
(***************************************************************************)
PerCycleCap == 3          \* min(3, budget_remaining)
MaxRetries == 2           \* if self.plan_retries < 2
DefaultMaxCycles == 5     \* self.max_cycles = 5
MinExperiments == 3       \* if len(experiments) < 3

VARIABLES
    \* MessageBus
    subscribers,                  \* _subscribers: topic -> sequence of handlers
    history,                      \* _history: sequence of published events
    \* asyncio event loop
    ready,                        \* FIFO of tasks ready to run
    next_uid,                     \* source of fresh Event.id values
    \* AIScientist (Director)
    budget_max,
    max_cycles,
    current_cycle,
    expected_experiments,
    completed_experiments_cycle,
    plan_retries,
    stop_signal,
    final_pareto,
    final_insights,
    \* WorldModel: the persisted experiments, in insertion order, and the
    \* Pareto fronts saved by the Analysis agent
    world_model,
    pareto_fronts,
    \* LLM backend: what chat() does in each of the LLM steps of analyze()
    llm_backend,
    llm_calls,                    \* number of chat() calls made so far
    \* run_async coroutine
    main_pc,                      \* "start", "waiting", "returned"
    returned,                     \* the value run_async returned
    initial_configs,              \* argument of run_async
    max_cycles_arg,               \* argument of run_async
    \* Planner/Reviewer and Executor work in flight
    planning,                     \* PLAN_REQUESTED events being planned
    running,                      \* experiment ids being executed
    next_config,                  \* next fresh experiment id
    \* observations: the step taken last, and the PLAN_APPROVED events the
    \* Director has handled, each with the cycle in which it handled it
    last,
    handled_approvals,
    \* observations of the bus on its own: the handler invocations made so
    \* far, and for each published event the handlers that were subscribed
    \* to its topic when publish was called
    calls,
    registered,
    \* CIASWorldModel: the committed content of the SQLite database, the
    \* connections opened by calls in progress, and the calls completed
    db,
    conns,
    oplog,
    \* CIAS-X workflow: the node to run next, the AgentState, and the nodes
    \* run so far
    wf_node,
    wf_state,
    wf_trace,
    \* run_sync: its position and local variables, <<>> before it is called
    sync

vars == <<subscribers, history, ready, next_uid, budget_max, max_cycles,
          current_cycle, expected_experiments, completed_experiments_cycle,
          plan_retries, stop_signal, final_pareto, final_insights, world_model,
          pareto_fronts, llm_backend, llm_calls, main_pc, returned, initial_configs, max_cycles_arg, planning,
          running, next_config, last, handled_approvals, calls, registered,
          db, conns, oplog, wf_node, wf_state, wf_trace, sync>>

busVars == <<subscribers, history, ready, next_uid>>
directorVars == <<budget_max, max_cycles, current_cycle, expected_experiments,
                  completed_experiments_cycle, plan_retries, stop_signal,
                  final_pareto, final_insights>>
counterVars == <<current_cycle, expected_experiments,
                 completed_experiments_cycle, plan_retries>>
mainVars == <<main_pc, returned, initial_configs, max_cycles_arg>>
obsVars == <<handled_approvals, calls, registered>>
envVars == <<planning, running, next_config>>
ciasVars == <<db, conns, oplog>>
workflowVars == <<wf_node, wf_state, wf_trace>>
storeVars == <<world_model, pareto_fronts, llm_backend, llm_calls, ciasVars,
               workflowVars, sync>>

\* no CIAS-X workflow has been compiled
NoWorkflow == wf_node = "none" /\ wf_state = <<>> /\ wf_trace = <<>>

\* no CIASWorldModel is open: the orchestration core does not use one
NoCias ==
    db = <<>> /\ conns = <<>> /\ oplog = <<>> /\ NoWorkflow /\ sync = <<>>

(***************************************************************************)
(* Small helpers.                                                          *)
(***************************************************************************)
Min(a, b) == IF a <= b THEN a ELSE b

Max(a, b) == IF a >= b THEN a ELSE b

Range(s) == {s[i] : i \in 1..Len(s)}

\* dict.get(key, default)
Get(payload, key, default) ==
    IF key \in DOMAIN payload THEN payload[key] ELSE default

\* Python's {}
EmptyDict == [x \in {} |-> x]

\* Python's None
None == [none |-> TRUE]

\* the number of entries of a sequence that satisfy a test
CountSeq(s, Test(_)) == Cardinality({i \in DOMAIN s : Test(s[i])})

(***************************************************************************)
(* Event envelope and message bus.                                         *)
(***************************************************************************)
Topics == {"PLAN_REQUESTED", "PLAN_APPROVED", "PLAN_REJECTED",
           "EXPERIMENT_COMPLETED", "STATE_UPDATED", "INSIGHT_GENERATED"}

Event(topic, payload, sender, uid) ==
    [topic |-> topic, payload |-> payload, sender |-> sender, id |-> uid]

NoEvent == [topic |-> "none", payload |-> None, sender |-> "none", id |-> 0]

HandlerTask(handler, event) ==
    [kind |-> "handler", handler |-> handler, event |-> event]

\* asyncio.create_task(self.bus.publish(event))
PublishTask(event) ==
    [kind |-> "publish", handler |-> "MessageBus.publish", event |-> event]

\* the wake-up of the coroutine suspended in stop_signal.wait()
MainTask ==
    [kind |-> "main", handler |-> "AIScientist.run_async", event |-> NoEvent]

\* MessageBus.__init__
EmptySubscribers == [t \in Topics |-> <<>>]

\* MessageBus.subscribe
Subscribe(subs, topic, handler) ==
    [subs EXCEPT ![topic] = Append(@, handler)]

\* variant: the event is recorded after the early return for a topic without
\* handlers, so only dispatched events reach the history
Record_SkipUnsubscribed(hist, event) ==
    IF subscribers[event.topic] = <<>> THEN hist ELSE Append(hist, event)

\* MessageBus.publish, first statement: self._history.append(event)
Record(hist, event) == Append(hist, event)

\* variant: one task per distinct handler, however often it is registered
Dispatch_OncePerHandler(event) ==
    LET handlers == subscribers[event.topic]
        firsts == {i \in 1..Len(handlers) :
                      \A j \in 1..(i - 1) : handlers[j] # handlers[i]}
        Pick(n) == CHOOSE i \in firsts :
                      Cardinality({j \in firsts : j < i}) = n - 1
    IN  [n \in 1..Cardinality(firsts) |-> HandlerTask(handlers[Pick(n)], event)]

\* variant: the handlers are scheduled last subscribed first
Dispatch_Reversed(event) ==
    LET handlers == subscribers[event.topic]
        n == Len(handlers)
    IN  [i \in 1..n |-> HandlerTask(handlers[n + 1 - i], event)]

\* MessageBus.publish, the loop: one task per handler subscribed to the topic,
\* in subscription order (no task when the topic has no handler)
Dispatch(event) ==
    LET handlers == subscribers[event.topic]
    IN  [i \in 1..Len(handlers) |-> HandlerTask(handlers[i], event)]

\* variant: no try/except around the handler, so a handler that raises takes
\* the tasks scheduled behind it down with it
SafeExecute_Abort(outcome) ==
    IF outcome = "raised" THEN <<>> ELSE Tail(ready)

\* MessageBus._safe_execute: what is left of the ready queue when the handler
\* task at its head has run; an exception of the handler is caught and
\* logged, so the outcome makes no difference
SafeExecute(outcome) == Tail(ready)

\* the handler task at the head of the ready queue is the one the loop runs
Running(handler) ==
    /\ ready # <<>>
    /\ Head(ready).kind = "handler"
    /\ Head(ready).handler = handler

Step(handler, event) == [handler |-> handler, event |-> event]

(***************************************************************************)
(* Experiments and the Pareto front of the Analysis agent.                 *)
(* Metrics are integers: psnr in dB, ssim in hundredths, latency in ms.    *)
(***************************************************************************)
Metrics(psnr, ssim, latency) ==
    [psnr |-> psnr, ssim |-> ssim, latency |-> latency]

ExperimentResult(id, metrics) == [experiment_id |-> id, metrics |-> metrics]

\* variant: only None counts as no result
Truthy_NotNone(result) == result # None

\* `if result:` an absent result, None and an empty dict are falsy
Truthy(result) == result # None /\ result # <<>>

\* values = [psnr, ssim, -latency]
ObjRow(exp) == <<exp.metrics.psnr, exp.metrics.ssim, 0 - exp.metrics.latency>>

\* one entry of  np.all(obj_matrix >= obj_i, axis=1) &
\*               np.any(obj_matrix > obj_i, axis=1)
DominatedMask(row, obj_i) ==
    /\ \A k \in 1..3 : row[k] >= obj_i[k]
    /\ \E k \in 1..3 : row[k] > obj_i[k]

\* for i, obj_i in enumerate(obj_matrix): if is_pareto[i]: ...
RECURSIVE ParetoLoop(_, _, _)
ParetoLoop(obj_matrix, is_pareto, i) ==
    IF i > Len(obj_matrix) THEN is_pareto
    ELSE IF is_pareto[i]
         THEN ParetoLoop(obj_matrix,
                         [j \in 1..Len(obj_matrix) |->
                             IF DominatedMask(obj_matrix[j], obj_matrix[i])
                             THEN FALSE ELSE is_pareto[j]],
                         i + 1)
         ELSE ParetoLoop(obj_matrix, is_pareto, i + 1)

\* [exp_ids[i] for i in range(len(exp_ids)) if is_pareto[i]]
RECURSIVE SelectIds(_, _, _)
SelectIds(experiments, is_pareto, i) ==
    IF i > Len(experiments) THEN <<>>
    ELSE (IF is_pareto[i] THEN <<experiments[i].experiment_id>> ELSE <<>>)
         \o SelectIds(experiments, is_pareto, i + 1)

\* AnalysisAgent._compute_pareto_front
ComputeParetoFront(experiments) ==
    IF experiments = <<>> THEN <<>>
    ELSE LET obj_matrix == [i \in 1..Len(experiments) |-> ObjRow(experiments[i])]
             ones == [i \in 1..Len(experiments) |-> TRUE]
         IN  SelectIds(experiments, ParetoLoop(obj_matrix, ones, 1), 1)

\* the three LLM steps of analyze() and what the LLM client does in each of
\* them: chat() answers with parsable JSON, chat() raises, or the answer is
\* not parsable JSON
LlmSteps == {"verify", "trends", "recommendations"}

LlmOutcomes == {"answer", "backend_error", "unparsable"}

\* str(e) of the exception caught in the except branch of an LLM step
ErrorText(outcome) ==
    IF outcome = "backend_error" THEN "BackendError" ELSE "JSONDecodeError"

\* variant: a failed verification condemns the front
LlmVerifyPareto_Strict ==
    IF llm_backend["verify"] = "answer" THEN [is_reasonable |-> TRUE]
    ELSE [is_reasonable |-> FALSE,
          error |-> ErrorText(llm_backend["verify"])]

\* the parsed answer of each step, or the fallback of its except branch
LlmVerifyPareto ==
    IF llm_backend["verify"] = "answer" THEN [is_reasonable |-> TRUE]
    ELSE [is_reasonable |-> TRUE,
          error |-> ErrorText(llm_backend["verify"])]

LlmAnalyzeTrends ==
    IF llm_backend["trends"] = "answer" THEN [key_findings |-> <<>>]
    ELSE [error |-> ErrorText(llm_backend["trends"])]

LlmGenerateRecommendations ==
    IF llm_backend["recommendations"] = "answer" THEN [strategy |-> "explore"]
    ELSE [error |-> ErrorText(llm_backend["recommendations"])]

\* the backend of a whole run: it answers every step, or it is down
RunWideBackends ==
    {[s \in LlmSteps |-> outcome] : outcome \in {"answer", "backend_error"}}

\* variant: analyze without the guard on the number of experiments
Analyze_NoGuard(experiments, cycle_number) ==
    LET pareto_ids == ComputeParetoFront(experiments)
    IN  [pareto_ids |-> pareto_ids,
         insights |->
             [pareto_front |-> [experiment_ids |-> pareto_ids,
                                count |-> Len(pareto_ids),
                                verification |-> LlmVerifyPareto],
              trends |-> LlmAnalyzeTrends,
              recommendations |-> LlmGenerateRecommendations,
              cycle |-> cycle_number,
              total_experiments_analyzed |-> Len(experiments)],
         saved |-> TRUE,
         llm_calls |-> 3]

\* AnalysisAgent.analyze: the returned pair, whether the front was saved, and
\* the number of calls of the LLM client (one per LLM step)
Analyze(experiments, cycle_number) ==
    IF Len(experiments) < MinExperiments
    THEN [pareto_ids |-> <<>>,
          insights |-> [message |-> "Insufficient data"],
          saved |-> FALSE,
          llm_calls |-> 0]
    ELSE LET pareto_ids == ComputeParetoFront(experiments)
         IN  [pareto_ids |-> pareto_ids,
              insights |->
                  [pareto_front |-> [experiment_ids |-> pareto_ids,
                                     count |-> Len(pareto_ids),
                                     verification |-> LlmVerifyPareto],
                   trends |-> LlmAnalyzeTrends,
                   recommendations |-> LlmGenerateRecommendations,
                   cycle |-> cycle_number,
                   total_experiments_analyzed |-> Len(experiments)],
              saved |-> TRUE,
              llm_calls |-> 3]

(***************************************************************************)
(* Construction (sci_loop.main): the agents subscribe in the order in      *)
(* which they are built, the Director last.                                *)
(***************************************************************************)
PlannerHandler == "PlannerAgent._on_plan_requested"
ExecutorHandler == "ExecutorAgent._on_plan_approved"
AnalysisHandler == "AnalysisAgent._on_state_updated"
OnExperimentCompleted == "AIScientist._on_experiment_completed"
OnPlanApproved == "AIScientist._on_plan_approved"
OnPlanRejected == "AIScientist._on_plan_rejected"
OnInsightGenerated == "AIScientist._on_insight_generated"

\* PlannerAgent.setup_subscriptions
PlannerSubscriptions(subs) == Subscribe(subs, "PLAN_REQUESTED", PlannerHandler)

\* ExecutorAgent.setup_subscriptions
ExecutorSubscriptions(subs) == Subscribe(subs, "PLAN_APPROVED", ExecutorHandler)

\* AnalysisAgent.setup_subscriptions
AnalysisSubscriptions(subs) == Subscribe(subs, "STATE_UPDATED", AnalysisHandler)

\* AIScientist.__init__, the four subscribe calls
DirectorSubscriptions(subs) ==
    Subscribe(Subscribe(Subscribe(Subscribe(subs,
        "EXPERIMENT_COMPLETED", OnExperimentCompleted),
        "PLAN_APPROVED", OnPlanApproved),
        "PLAN_REJECTED", OnPlanRejected),
        "INSIGHT_GENERATED", OnInsightGenerated)

\* sci_loop.main: planner, executor, analyzer, (reviewer), AIScientist
WiredSubscribers ==
    DirectorSubscriptions(AnalysisSubscriptions(ExecutorSubscriptions(
        PlannerSubscriptions(EmptySubscribers))))

\* the metrics the Executor reports for an experiment
MetricsTable ==
    << Metrics(30, 90, 50), Metrics(32, 85, 60), Metrics(28, 80, 80),
       Metrics(31, 88, 55), Metrics(29, 92, 45), Metrics(33, 80, 70) >>

RunExperiment(id) ==
    ExperimentResult(id, MetricsTable[((id - 1) % Len(MetricsTable)) + 1])

\* AIScientist.__init__ and the arguments of run_async
Init ==
    /\ subscribers = WiredSubscribers
    /\ history = <<>>
    /\ ready = <<>>
    /\ next_uid = 1
    /\ budget_max \in 1..MaxBudget
    /\ max_cycles = DefaultMaxCycles
    /\ current_cycle = 0
    /\ expected_experiments = 0
    /\ completed_experiments_cycle = 0
    /\ plan_retries = 0
    /\ stop_signal = FALSE
    /\ final_pareto = <<>>
    /\ final_insights = EmptyDict
    /\ world_model = <<>>
    /\ pareto_fronts = <<>>
    /\ llm_backend \in RunWideBackends
    /\ llm_calls = 0
    /\ NoCias
    /\ main_pc = "start"
    /\ returned = <<>>
    /\ \E n \in 0..MaxInitial : initial_configs = [i \in 1..n |-> i]
    /\ max_cycles_arg \in 0..MaxCyclesArg
    /\ planning = {}
    /\ running = {}
    /\ next_config = Len(initial_configs) + 1
    /\ last = Step("none", NoEvent)
    /\ handled_approvals = {}
    /\ calls = <<>>
    /\ registered = <<>>

(***************************************************************************)
(* The Director (AIScientist).                                             *)
(***************************************************************************)
\* len(self.world_model.get_all_experiments())
TotalPersisted == Len(world_model)

\* variant: the per-cycle cap is not applied
PlanBudget_NoCap(budget_used) == budget_max - budget_used

\* min(3, budget_remaining)
PlanBudget(budget_used) == Min(PerCycleCap, budget_max - budget_used)

\* variant: one retry too many
RetryAllowed_OffByOne == plan_retries <= MaxRetries

\* if self.plan_retries < 2
RetryAllowed == plan_retries < MaxRetries

\* variant: the batch counts as drained from its first completion on
BatchDone_Eager(completed, expected) == completed >= 1 /\ expected > 0

\* if self.completed_experiments_cycle >= self.expected_experiments
\*    and self.expected_experiments > 0
BatchDone(completed, expected) == completed >= expected /\ expected > 0

\* variant: the ceiling counts as reached only once it is exceeded
BudgetExhausted_Strict(total_done) == total_done > budget_max

\* elif total_done >= self.budget_max
BudgetExhausted(total_done) == total_done >= budget_max

\* variant: the budget ceiling is not consulted
ShouldContinue_IgnoreBudget(budget_used) == current_cycle < max_cycles

\* variant: the budget test admits budget_used = budget_max
ShouldContinue_OffByOne(budget_used) ==
    budget_used <= budget_max /\ current_cycle < max_cycles

\* variant: the cycle test admits current_cycle = max_cycles
ShouldContinue_CycleInclusive(budget_used) ==
    budget_used < budget_max /\ current_cycle <= max_cycles

\* variant: the Director also goes on while the approved batch is not drained
ShouldContinue_WhileBatchOpen(budget_used) ==
    \/ budget_used < budget_max /\ current_cycle < max_cycles
    \/ completed_experiments_cycle < expected_experiments

\* if budget_used < self.budget_max and self.current_cycle < self.max_cycles
ShouldContinue(budget_used) ==
    budget_used < budget_max /\ current_cycle < max_cycles

\* variant: run_async does not wait for the latch
AwaitStopSignal_NoWait == "returned"

\* await self.stop_signal.wait(): the coroutine goes on at once when the latch
\* is set and is suspended otherwise
AwaitStopSignal == IF stop_signal THEN "returned" ELSE "waiting"

\* asyncio.Event.set(): the waiters are woken by the call that sets the latch
WakeOnSet == IF ~stop_signal /\ main_pc = "waiting" THEN <<MainTask>> ELSE <<>>

StateUpdated(uid) ==
    Event("STATE_UPDATED",
          [trigger_analysis |-> TRUE, cycle |-> current_cycle], "Director", uid)

\* AIScientist.run_async up to its suspension in stop_signal.wait()
RunAsync ==
    /\ main_pc = "start"
    /\ LET event == Event("PLAN_APPROVED", [configs |-> initial_configs],
                          "Director", next_uid)
       IN  /\ history' = Record(history, event)
           /\ ready' = ready \o Dispatch(event)
           /\ last' = Step("AIScientist.run_async", event)
    /\ next_uid' = next_uid + 1
    /\ max_cycles' = max_cycles_arg
    /\ current_cycle' = 0
    /\ expected_experiments' = 0
    /\ main_pc' = AwaitStopSignal
    /\ returned' = IF AwaitStopSignal = "returned"
                   THEN <<final_pareto, final_insights>>
                   ELSE returned
    /\ UNCHANGED <<subscribers, budget_max, completed_experiments_cycle,
                   plan_retries, stop_signal, final_pareto, final_insights,
                   initial_configs, max_cycles_arg>>
    /\ UNCHANGED <<storeVars, envVars, obsVars>>

\* AIScientist.run_async after stop_signal.wait() returned
RunAsyncReturn ==
    /\ ready # <<>>
    /\ Head(ready).kind = "main"
    /\ main_pc = "waiting"
    /\ main_pc' = "returned"
    /\ returned' = <<final_pareto, final_insights>>
    /\ ready' = Tail(ready)
    /\ last' = Step("AIScientist.run_async", NoEvent)
    /\ UNCHANGED <<subscribers, history, next_uid, initial_configs,
                   max_cycles_arg>>
    /\ UNCHANGED <<directorVars, storeVars, envVars, obsVars>>

\* variant: the handler assigns the size of the plan instead of adding it
DirectorOnPlanApproved_Assign ==
    /\ Running(OnPlanApproved)
    /\ LET event == Head(ready).event
           configs == Get(event.payload, "configs", <<>>)
           count == Len(configs)
       IN  /\ expected_experiments' = count
           /\ last' = Step(OnPlanApproved, event)
           /\ handled_approvals' = handled_approvals \cup
                  {[id |-> event.id, cycle |-> current_cycle]}
           /\ UNCHANGED <<calls, registered>>
    /\ ready' = Tail(ready)
    /\ UNCHANGED <<subscribers, history, next_uid, budget_max, max_cycles,
                   current_cycle, completed_experiments_cycle, plan_retries,
                   stop_signal, final_pareto, final_insights>>
    /\ UNCHANGED <<storeVars, mainVars, envVars>>

\* AIScientist._on_plan_approved
DirectorOnPlanApproved ==
    /\ Running(OnPlanApproved)
    /\ LET event == Head(ready).event
           configs == Get(event.payload, "configs", <<>>)
           count == Len(configs)
       IN  /\ expected_experiments' = expected_experiments + count
           /\ last' = Step(OnPlanApproved, event)
           /\ handled_approvals' = handled_approvals \cup
                  {[id |-> event.id, cycle |-> current_cycle]}
           /\ UNCHANGED <<calls, registered>>
    /\ ready' = Tail(ready)
    /\ UNCHANGED <<subscribers, history, next_uid, budget_max, max_cycles,
                   current_cycle, completed_experiments_cycle, plan_retries,
                   stop_signal, final_pareto, final_insights>>
    /\ UNCHANGED <<storeVars, mainVars, envVars>>

\* AIScientist._on_plan_rejected
DirectorOnPlanRejected ==
    /\ Running(OnPlanRejected)
    /\ LET event == Head(ready).event
       IN  /\ last' = Step(OnPlanRejected, event)
           /\ IF RetryAllowed
              THEN LET request ==
                           Event("PLAN_REQUESTED",
                                 [budget |-> PlanBudget(TotalPersisted),
                                  cycle |-> current_cycle],
                                 "Director", next_uid)
                   IN  /\ plan_retries' = plan_retries + 1
                       /\ history' = Record(history, request)
                       /\ ready' = Tail(ready) \o Dispatch(request)
              ELSE /\ plan_retries' = plan_retries
                   /\ history' = Record(history, StateUpdated(next_uid))
                   /\ ready' = Tail(ready) \o Dispatch(StateUpdated(next_uid))
    /\ next_uid' = next_uid + 1
    /\ UNCHANGED <<subscribers, budget_max, max_cycles, current_cycle,
                   expected_experiments, completed_experiments_cycle,
                   stop_signal, final_pareto, final_insights>>
    /\ UNCHANGED <<storeVars, mainVars, envVars, obsVars>>

\* variant: the budget check is a second `if`, not an `elif`
DirectorOnExperimentCompleted_TwoIfs ==
    /\ Running(OnExperimentCompleted)
    /\ LET event == Head(ready).event
           result == Get(event.payload, "result", None)
       IN  /\ last' = Step(OnExperimentCompleted, event)
           /\ IF Truthy(result)
              THEN LET total_done == TotalPersisted + 1
                       completed == completed_experiments_cycle + 1
                   IN  /\ world_model' = Append(world_model, result)
                       /\ completed_experiments_cycle' = completed
                       /\ IF /\ BatchDone(completed, expected_experiments)
                             /\ BudgetExhausted(total_done)
                          THEN /\ history' =
                                      Record(Record(history,
                                                    StateUpdated(next_uid)),
                                             StateUpdated(next_uid + 1))
                               /\ ready' = Tail(ready)
                                      \o Dispatch(StateUpdated(next_uid))
                                      \o Dispatch(StateUpdated(next_uid + 1))
                               /\ next_uid' = next_uid + 2
                          ELSE IF \/ BatchDone(completed, expected_experiments)
                                  \/ BudgetExhausted(total_done)
                          THEN /\ history' =
                                      Record(history, StateUpdated(next_uid))
                               /\ ready' = Tail(ready)
                                      \o Dispatch(StateUpdated(next_uid))
                               /\ next_uid' = next_uid + 1
                          ELSE /\ ready' = Tail(ready)
                               /\ UNCHANGED <<history, next_uid>>
              ELSE /\ ready' = Tail(ready)
                   /\ UNCHANGED <<world_model, completed_experiments_cycle,
                                  history, next_uid>>
    /\ UNCHANGED <<subscribers, budget_max, max_cycles, current_cycle,
                   expected_experiments, plan_retries, stop_signal,
                   final_pareto, final_insights, pareto_fronts, llm_backend,
                   llm_calls, ciasVars, workflowVars, sync>>
    /\ UNCHANGED <<mainVars, envVars, obsVars>>

\* AIScientist._on_experiment_completed
DirectorOnExperimentCompleted ==
    /\ Running(OnExperimentCompleted)
    /\ LET event == Head(ready).event
           result == Get(event.payload, "result", None)
       IN  /\ last' = Step(OnExperimentCompleted, event)
           /\ IF Truthy(result)
              THEN LET total_done == TotalPersisted + 1
                       completed == completed_experiments_cycle + 1
                   IN  /\ world_model' = Append(world_model, result)
                       /\ completed_experiments_cycle' = completed
                       /\ IF \/ BatchDone(completed, expected_experiments)
                             \/ BudgetExhausted(total_done)
                          THEN /\ history' =
                                      Record(history, StateUpdated(next_uid))
                               /\ ready' = Tail(ready)
                                      \o Dispatch(StateUpdated(next_uid))
                               /\ next_uid' = next_uid + 1
                          ELSE /\ ready' = Tail(ready)
                               /\ UNCHANGED <<history, next_uid>>
              ELSE /\ ready' = Tail(ready)
                   /\ UNCHANGED <<world_model, completed_experiments_cycle,
                                  history, next_uid>>
    /\ UNCHANGED <<subscribers, budget_max, max_cycles, current_cycle,
                   expected_experiments, plan_retries, stop_signal,
                   final_pareto, final_insights, pareto_fronts, llm_backend,
                   llm_calls, ciasVars, workflowVars, sync>>
    /\ UNCHANGED <<mainVars, envVars, obsVars>>

\* variant: the retry counter is carried over into the new cycle
StartNextCycle_KeepRetries(budget_used) ==
    /\ current_cycle' = current_cycle + 1
    /\ plan_retries' = plan_retries
    /\ expected_experiments' = 0
    /\ completed_experiments_cycle' = 0
    /\ ready' = Tail(ready) \o
           <<PublishTask(Event("PLAN_REQUESTED",
                               [budget |-> PlanBudget(budget_used),
                                cycle |-> current_cycle + 1],
                               "Director", next_uid))>>
    /\ next_uid' = next_uid + 1

\* variant: the completion counter is carried over into the new cycle
StartNextCycle_KeepCompleted(budget_used) ==
    /\ current_cycle' = current_cycle + 1
    /\ plan_retries' = 0
    /\ expected_experiments' = 0
    /\ completed_experiments_cycle' = completed_experiments_cycle
    /\ ready' = Tail(ready) \o
           <<PublishTask(Event("PLAN_REQUESTED",
                               [budget |-> PlanBudget(budget_used),
                                cycle |-> current_cycle + 1],
                               "Director", next_uid))>>
    /\ next_uid' = next_uid + 1

\* AIScientist._start_next_cycle: the counters after the call and the
\* PLAN_REQUESTED event handed to asyncio.create_task(self.bus.publish(...))
StartNextCycle(budget_used) ==
    /\ current_cycle' = current_cycle + 1
    /\ plan_retries' = 0
    /\ expected_experiments' = 0
    /\ completed_experiments_cycle' = 0
    /\ ready' = Tail(ready) \o
           <<PublishTask(Event("PLAN_REQUESTED",
                               [budget |-> PlanBudget(budget_used),
                                cycle |-> current_cycle + 1],
                               "Director", next_uid))>>
    /\ next_uid' = next_uid + 1

\* variant: the snapshot is frozen once the latch is set
DirectorOnInsightGenerated_KeepFirst ==
    /\ Running(OnInsightGenerated)
    /\ LET event == Head(ready).event
           budget_used == TotalPersisted
       IN  /\ last' = Step(OnInsightGenerated, event)
           /\ final_insights' =
                  IF stop_signal THEN final_insights
                  ELSE Get(event.payload, "insights", EmptyDict)
           /\ final_pareto' =
                  IF stop_signal THEN final_pareto
                  ELSE Get(event.payload, "pareto_ids", <<>>)
           /\ IF ShouldContinue(budget_used)
              THEN /\ StartNextCycle(budget_used)
                   /\ UNCHANGED stop_signal
              ELSE /\ stop_signal' = TRUE
                   /\ ready' = Tail(ready) \o WakeOnSet
                   /\ UNCHANGED <<counterVars, next_uid>>
    /\ UNCHANGED <<subscribers, history, budget_max, max_cycles>>
    /\ UNCHANGED <<storeVars, mainVars, envVars, obsVars>>

\* AIScientist._on_insight_generated
DirectorOnInsightGenerated ==
    /\ Running(OnInsightGenerated)
    /\ LET event == Head(ready).event
           budget_used == TotalPersisted
       IN  /\ last' = Step(OnInsightGenerated, event)
           /\ final_insights' = Get(event.payload, "insights", EmptyDict)
           /\ final_pareto' = Get(event.payload, "pareto_ids", <<>>)
           /\ IF ShouldContinue(budget_used)
              THEN /\ StartNextCycle(budget_used)
                   /\ UNCHANGED stop_signal
              ELSE /\ stop_signal' = TRUE
                   /\ ready' = Tail(ready) \o WakeOnSet
                   /\ UNCHANGED <<counterVars, next_uid>>
    /\ UNCHANGED <<subscribers, history, budget_max, max_cycles>>
    /\ UNCHANGED <<storeVars, mainVars, envVars, obsVars>>

\* the task created by asyncio.create_task(self.bus.publish(event))
RunPublishTask ==
    /\ ready # <<>>
    /\ Head(ready).kind = "publish"
    /\ LET event == Head(ready).event
       IN  /\ history' = Record(history, event)
           /\ ready' = Tail(ready) \o Dispatch(event)
           /\ last' = Step("MessageBus.publish", event)
    /\ UNCHANGED <<subscribers, next_uid>>
    /\ UNCHANGED <<directorVars, storeVars, mainVars, envVars, obsVars>>

\* variant: the handler analyses on every STATE_UPDATED, triggered or not
AnalysisOnStateUpdated_Always ==
    /\ Running(AnalysisHandler)
    /\ LET event == Head(ready).event
       IN  /\ last' = Step(AnalysisHandler, event)
           /\ IF TRUE
              THEN LET cycle == Get(event.payload, "cycle", 1)
                       res == Analyze(world_model, cycle)
                       insight ==
                           Event("INSIGHT_GENERATED",
                                 [insights |-> res.insights,
                                  pareto_ids |-> res.pareto_ids,
                                  cycle |-> cycle],
                                 "AnalysisAgent", next_uid)
                   IN  /\ pareto_fronts' =
                              IF res.saved
                              THEN Append(pareto_fronts,
                                          [cycle |-> cycle,
                                           pareto_ids |-> res.pareto_ids])
                              ELSE pareto_fronts
                       /\ llm_calls' = llm_calls + res.llm_calls
                       /\ history' = Record(history, insight)
                       /\ ready' = Tail(ready) \o Dispatch(insight)
                       /\ next_uid' = next_uid + 1
              ELSE /\ ready' = Tail(ready)
                   /\ UNCHANGED <<pareto_fronts, llm_calls, history, next_uid>>
    /\ UNCHANGED <<subscribers, world_model, llm_backend, ciasVars,
                   workflowVars, sync>>
    /\ UNCHANGED <<directorVars, mainVars, envVars, obsVars>>

(***************************************************************************)
(* The Analysis agent.                                                     *)
(***************************************************************************)
\* AnalysisAgent._on_state_updated and run_analysis (a world model is attached)
AnalysisOnStateUpdated ==
    /\ Running(AnalysisHandler)
    /\ LET event == Head(ready).event
       IN  /\ last' = Step(AnalysisHandler, event)
           /\ IF Get(event.payload, "trigger_analysis", FALSE)
              THEN LET cycle == Get(event.payload, "cycle", 1)
                       res == Analyze(world_model, cycle)
                       insight ==
                           Event("INSIGHT_GENERATED",
                                 [insights |-> res.insights,
                                  pareto_ids |-> res.pareto_ids,
                                  cycle |-> cycle],
                                 "AnalysisAgent", next_uid)
                   IN  /\ pareto_fronts' =
                              IF res.saved
                              THEN Append(pareto_fronts,
                                          [cycle |-> cycle,
                                           pareto_ids |-> res.pareto_ids])
                              ELSE pareto_fronts
                       /\ llm_calls' = llm_calls + res.llm_calls
                       /\ history' = Record(history, insight)
                       /\ ready' = Tail(ready) \o Dispatch(insight)
                       /\ next_uid' = next_uid + 1
              ELSE /\ ready' = Tail(ready)
                   /\ UNCHANGED <<pareto_fronts, llm_calls, history, next_uid>>
    /\ UNCHANGED <<subscribers, world_model, llm_backend, ciasVars,
                   workflowVars, sync>>
    /\ UNCHANGED <<directorVars, mainVars, envVars, obsVars>>

(***************************************************************************)
(* Planner/Reviewer and Executor, from the specification: the Planner      *)
(* answers each PLAN_REQUESTED with one PLAN_APPROVED of at most `budget`  *)
(* new configurations or with one PLAN_REJECTED; the Executor publishes    *)
(* one EXPERIMENT_COMPLETED carrying a result per approved configuration.  *)
(***************************************************************************)
PlannerStart ==
    /\ Running(PlannerHandler)
    /\ planning' = planning \cup {Head(ready).event}
    /\ ready' = Tail(ready)
    /\ last' = Step(PlannerHandler, Head(ready).event)
    /\ UNCHANGED <<subscribers, history, next_uid, running, next_config>>
    /\ UNCHANGED <<directorVars, storeVars, mainVars, obsVars>>

PlannerApprove(request, count) ==
    /\ request \in planning
    /\ count \in 0..Max(0, Get(request.payload, "budget", 0))
    /\ LET configs == [i \in 1..count |-> next_config + i - 1]
           event == Event("PLAN_APPROVED", [configs |-> configs],
                          "PlanReviewerAgent", next_uid)
       IN  /\ history' = Record(history, event)
           /\ ready' = ready \o Dispatch(event)
           /\ last' = Step("PlanReviewerAgent.approve", event)
    /\ planning' = planning \ {request}
    /\ next_config' = next_config + count
    /\ next_uid' = next_uid + 1
    /\ UNCHANGED <<subscribers, running>>
    /\ UNCHANGED <<directorVars, storeVars, mainVars, obsVars>>

PlannerReject(request) ==
    /\ request \in planning
    /\ LET event == Event("PLAN_REJECTED", [feedback |-> "rejected"],
                          "PlanReviewerAgent", next_uid)
       IN  /\ history' = Record(history, event)
           /\ ready' = ready \o Dispatch(event)
           /\ last' = Step("PlanReviewerAgent.reject", event)
    /\ planning' = planning \ {request}
    /\ next_uid' = next_uid + 1
    /\ UNCHANGED <<subscribers, running, next_config>>
    /\ UNCHANGED <<directorVars, storeVars, mainVars, obsVars>>

ExecutorStart ==
    /\ Running(ExecutorHandler)
    /\ running' = running \cup Range(Get(Head(ready).event.payload,
                                          "configs", <<>>))
    /\ ready' = Tail(ready)
    /\ last' = Step(ExecutorHandler, Head(ready).event)
    /\ UNCHANGED <<subscribers, history, next_uid, planning, next_config>>
    /\ UNCHANGED <<directorVars, storeVars, mainVars, obsVars>>

ExperimentDone(id) ==
    /\ id \in running
    /\ LET event == Event("EXPERIMENT_COMPLETED",
                          [result |-> RunExperiment(id)],
                          "ExecutorAgent", next_uid)
       IN  /\ history' = Record(history, event)
           /\ ready' = ready \o Dispatch(event)
           /\ last' = Step("ExecutorAgent.run_experiment", event)
    /\ running' = running \ {id}
    /\ next_uid' = next_uid + 1
    /\ UNCHANGED <<subscribers, planning, next_config>>
    /\ UNCHANGED <<directorVars, storeVars, mainVars, obsVars>>

(***************************************************************************)
(* The event-driven run.                                                   *)
(***************************************************************************)
DirectorStep ==
    \/ DirectorOnPlanApproved
    \/ DirectorOnPlanRejected
    \/ DirectorOnExperimentCompleted
    \/ DirectorOnInsightGenerated

AgentStep ==
    \/ PlannerStart
    \/ \E request \in planning :
          \/ \E count \in 0..PerCycleCap : PlannerApprove(request, count)
          \/ PlannerReject(request)
    \/ ExecutorStart
    \/ \E id \in running : ExperimentDone(id)

Next ==
    \/ RunAsync
    \/ RunAsyncReturn
    \/ RunPublishTask
    \/ DirectorStep
    \/ AnalysisOnStateUpdated
    \/ AgentStep

Spec == Init /\ [][Next]_vars

\* nothing is ready to run and no agent has work in flight
Quiescent ==
    /\ main_pc # "start"
    /\ ready = <<>>
    /\ planning = {}
    /\ running = {}

TypeOK ==
    /\ current_cycle \in Nat
    /\ plan_retries \in Nat
    /\ stop_signal \in BOOLEAN
    /\ main_pc \in {"start", "waiting", "returned"}

(***************************************************************************)
(* Properties of the event-driven run.                                     *)
(***************************************************************************)
IsAnalysisTrigger(e) ==
    /\ e.topic = "STATE_UPDATED"
    /\ Get(e.payload, "trigger_analysis", FALSE)

IsAnalysisTriggerOf(e, cycle) ==
    /\ IsAnalysisTrigger(e)
    /\ e.payload.cycle = cycle

IsPlanRequestOf(e, cycle) ==
    /\ e.topic = "PLAN_REQUESTED"
    /\ e.payload.cycle = cycle

\* the step just taken ran the given handler
Handled(handler) == last' # last /\ last'.handler = handler

\* the step just taken created a task that will publish PLAN_REQUESTED
NewCycleRequestCreated ==
    \E i \in DOMAIN ready' :
        /\ ready'[i].kind = "publish"
        /\ ready'[i] \notin Range(ready)

\* C2: in an event-driven run every PLAN_APPROVED the Director has handled is
\* eventually followed by an analysis trigger (STATE_UPDATED with
\* trigger_analysis) for the cycle in which it was handled; stated on the
\* states in which nothing can run any more: there, every handled approval
\* has its trigger in the history.
C2_ApprovedPlanReachesAnalysis ==
    Quiescent =>
        \A a \in handled_approvals :
            \E j \in DOMAIN history :
                /\ IsAnalysisTriggerOf(history[j], a.cycle)
                /\ history[j].id > a.id

\* C3: run_async returns for every initial batch, budget_max and max_cycles;
\* stated on the states in which nothing can run any more: there, run_async
\* has returned its snapshot.
C3_RunAlwaysReturns ==
    Quiescent =>
        /\ main_pc = "returned"
        /\ returned = <<final_pareto, final_insights>>

\* C4: current_cycle never exceeds max_cycles, and the Director increments
\* current_cycle or creates the next cycle's PLAN_REQUESTED only in a state
\* in which fewer than budget_max experiments are persisted.
C4_CycleAndBudgetCeiling ==
    /\ [](current_cycle <= max_cycles)
    /\ [][(current_cycle' # current_cycle \/ NewCycleRequestCreated)
            => TotalPersisted < budget_max]_vars

C4_Witness ==
    /\ last.handler = OnInsightGenerated
    /\ stop_signal
    /\ current_cycle >= 1
    /\ current_cycle = max_cycles
    /\ TotalPersisted < budget_max

\* C5: the stop latch, once set, is never cleared, and run_async has returned
\* only in states in which the latch is set.
C5_StopLatch ==
    /\ [](main_pc = "returned" => stop_signal)
    /\ [][stop_signal => stop_signal']_vars

C5_Witness ==
    /\ main_pc = "returned"
    /\ stop_signal
    /\ last.handler = "AIScientist.run_async"

ApprovedEvents(hist) == {e \in Range(hist) : e.topic = "PLAN_APPROVED"}

ApprovedConfigs(hist) ==
    UNION {Range(e.payload.configs) : e \in ApprovedEvents(hist)}

C7_OneTriggerPerDrainedBatch ==
    ( /\ expected_experiments > 0
      /\ completed_experiments_cycle >= expected_experiments
      /\ plan_retries = 0 )
    => CountSeq(history, LAMBDA e : IsAnalysisTriggerOf(e, current_cycle)) = 1

\* C8: a PLAN_REJECTED handled with fewer than two retries used increments
\* plan_retries and publishes one PLAN_REQUESTED for the current cycle; one
\* handled with two retries used publishes one analysis trigger and no
\* PLAN_REQUESTED; plan_retries stays in 0..2 and a cycle sees at most two
\* retry requests besides the request that opened it.
C8_BoundedPlanRetries ==
    /\ [](plan_retries \in 0..MaxRetries)
    /\ [](\A c \in 0..current_cycle :
            CountSeq(history, LAMBDA e : IsPlanRequestOf(e, c))
                <= MaxRetries + (IF c >= 1 THEN 1 ELSE 0))
    /\ [][Handled(OnPlanRejected) =>
            /\ Len(history') = Len(history) + 1
            /\ IF plan_retries < MaxRetries
               THEN /\ plan_retries' = plan_retries + 1
                    /\ IsPlanRequestOf(history'[Len(history')], current_cycle)
               ELSE /\ plan_retries' = plan_retries
                    /\ IsAnalysisTriggerOf(history'[Len(history')],
                                           current_cycle)]_vars

C8_Witness ==
    /\ last.handler = OnPlanRejected
    /\ plan_retries = MaxRetries
    /\ history # <<>>
    /\ IsAnalysisTrigger(history[Len(history)])

(***************************************************************************)
(* The end-to-end scenario: budget_max = 6, an initial batch of 3, default *)
(* max_cycles, and a Planner whose plan of 3 is approved at once.          *)
(***************************************************************************)
InitE2E ==
    /\ subscribers = WiredSubscribers
    /\ history = <<>>
    /\ ready = <<>>
    /\ next_uid = 1
    /\ budget_max = 6
    /\ max_cycles = DefaultMaxCycles
    /\ current_cycle = 0
    /\ expected_experiments = 0
    /\ completed_experiments_cycle = 0
    /\ plan_retries = 0
    /\ stop_signal = FALSE
    /\ final_pareto = <<>>
    /\ final_insights = EmptyDict
    /\ world_model = <<>>
    /\ pareto_fronts = <<>>
    /\ llm_backend \in RunWideBackends
    /\ llm_calls = 0
    /\ NoCias
    /\ main_pc = "start"
    /\ returned = <<>>
    /\ initial_configs = <<1, 2, 3>>
    /\ max_cycles_arg = DefaultMaxCycles
    /\ planning = {}
    /\ running = {}
    /\ next_config = 4
    /\ last = Step("none", NoEvent)
    /\ handled_approvals = {}
    /\ calls = <<>>
    /\ registered = <<>>

NextE2E ==
    \/ RunAsync
    \/ RunAsyncReturn
    \/ RunPublishTask
    \/ DirectorOnPlanApproved
    \/ DirectorOnExperimentCompleted
    \/ DirectorOnInsightGenerated
    \/ AnalysisOnStateUpdated
    \/ PlannerStart
    \/ \E request \in planning : PlannerApprove(request, 3)
    \/ ExecutorStart
    \/ \E id \in running : ExperimentDone(id)

\* the event loop runs every ready task, and planning and experiments end
SpecE2E == InitE2E /\ [][NextE2E]_vars /\ WF_vars(NextE2E)

IsInsightOf(e, cycle) ==
    /\ e.topic = "INSIGHT_GENERATED"
    /\ e.payload.cycle = cycle

\* C10: in the end-to-end scenario no PLAN_REQUESTED for cycle 2 is ever
\* created, the latch is set only after the 6th completion with
\* current_cycle = 1 and exactly one analysis of cycle 1, run_async returns
\* the Pareto ids and insights of that analysis, and it does return.
C10_EndToEnd ==
    /\ [](current_cycle <= 1)
    /\ [](\A e \in Range(history) : ~IsPlanRequestOf(e, 2))
    /\ [](\A i \in DOMAIN ready : ready[i].kind = "publish" =>
                                     ready[i].event.payload.cycle = 1)
    /\ [](stop_signal =>
            /\ current_cycle = 1
            /\ TotalPersisted = 6
            /\ CountSeq(history, LAMBDA e : IsAnalysisTriggerOf(e, 1)) = 1
            /\ CountSeq(history, LAMBDA e : IsInsightOf(e, 1)) = 1
            /\ CountSeq(pareto_fronts, LAMBDA f : f.cycle = 1) = 1)
    /\ [](main_pc = "returned" =>
            /\ stop_signal
            /\ returned[1] = ComputeParetoFront(world_model)
            /\ returned[2].cycle = 1
            /\ returned[2].total_experiments_analyzed = 6
            /\ \E e \in Range(history) :
                   /\ IsInsightOf(e, 1)
                   /\ returned = <<e.payload.pareto_ids, e.payload.insights>>)
    /\ <>(main_pc = "returned")

C10_Witness ==
    /\ main_pc = "returned"
    /\ TotalPersisted = 6
    /\ current_cycle = 1
    /\ returned[2].cycle = 1

(***************************************************************************)
(* The Pareto front on its own: a list of up to MaxPoints experiments      *)
(* whose metrics are drawn from PointSet, numbered in list order.          *)
(***************************************************************************)
MaxPoints == 3

PointSet ==
    { Metrics(30, 90, 50), Metrics(32, 85, 60), Metrics(28, 80, 80),
      Metrics(32, 90, 50) }

InitPareto ==
    /\ subscribers = EmptySubscribers
    /\ history = <<>>
    /\ ready = <<>>
    /\ next_uid = 1
    /\ budget_max = 1
    /\ max_cycles = DefaultMaxCycles
    /\ current_cycle = 0
    /\ expected_experiments = 0
    /\ completed_experiments_cycle = 0
    /\ plan_retries = 0
    /\ stop_signal = FALSE
    /\ final_pareto = <<>>
    /\ final_insights = EmptyDict
    /\ \E n \in 0..MaxPoints :
          \E points \in [1..n -> PointSet] :
              world_model = [i \in 1..n |-> ExperimentResult(i, points[i])]
    /\ pareto_fronts = <<>>
    /\ llm_backend = [s \in LlmSteps |-> "answer"]
    /\ llm_calls = 0
    /\ NoCias
    /\ main_pc = "start"
    /\ returned = <<>>
    /\ initial_configs = <<>>
    /\ max_cycles_arg = 0
    /\ planning = {}
    /\ running = {}
    /\ next_config = 1
    /\ last = Step("none", NoEvent)
    /\ handled_approvals = {}
    /\ calls = <<>>
    /\ registered = <<>>

\* pareto_ids = self._compute_pareto_front(experiments)
ComputeFrontStep ==
    /\ last.handler = "none"
    /\ final_pareto' = ComputeParetoFront(world_model)
    /\ last' = Step("AnalysisAgent._compute_pareto_front", NoEvent)
    /\ UNCHANGED <<busVars, budget_max, max_cycles, counterVars, stop_signal,
                   final_insights, storeVars, mainVars, envVars, obsVars>>

NextPareto == ComputeFrontStep

SpecPareto == InitPareto /\ [][NextPareto]_vars

\* X dominates Y: at least as good on psnr, ssim and negated latency, and
\* better on one of them
Dominates(x, y) ==
    /\ \A k \in 1..3 : ObjRow(x)[k] >= ObjRow(y)[k]
    /\ \E k \in 1..3 : ObjRow(x)[k] > ObjRow(y)[k]

NonDominatedIds(experiments) ==
    { experiments[i].experiment_id : i \in
        { i \in DOMAIN experiments :
            \A j \in DOMAIN experiments :
                ~Dominates(experiments[j], experiments[i]) } }

\* C9: _compute_pareto_front returns exactly the ids of the experiments that
\* no other experiment dominates.
C9_FrontIsNonDominatedSet ==
    last.handler = "AnalysisAgent._compute_pareto_front" =>
        /\ Range(final_pareto) = NonDominatedIds(world_model)
        /\ Len(final_pareto) = Cardinality(NonDominatedIds(world_model))

(***************************************************************************)
(* The message bus on its own: any handlers subscribe to any topics at any *)
(* time, events are published, and a handler either completes or raises.  *)
(***************************************************************************)
MaxSubscriptions == 3     \* subscribe calls
MaxEvents == 2            \* published events

BusTopics == {"PLAN_REQUESTED", "STATE_UPDATED"}

BusHandlers == {"handler_a", "handler_b"}

InitBus ==
    /\ subscribers = EmptySubscribers
    /\ history = <<>>
    /\ ready = <<>>
    /\ next_uid = 1
    /\ budget_max = 1
    /\ max_cycles = DefaultMaxCycles
    /\ current_cycle = 0
    /\ expected_experiments = 0
    /\ completed_experiments_cycle = 0
    /\ plan_retries = 0
    /\ stop_signal = FALSE
    /\ final_pareto = <<>>
    /\ final_insights = EmptyDict
    /\ world_model = <<>>
    /\ pareto_fronts = <<>>
    /\ llm_backend = [s \in LlmSteps |-> "answer"]
    /\ llm_calls = 0
    /\ NoCias
    /\ main_pc = "start"
    /\ returned = <<>>
    /\ initial_configs = <<>>
    /\ max_cycles_arg = 0
    /\ planning = {}
    /\ running = {}
    /\ next_config = 1
    /\ last = Step("none", NoEvent)
    /\ handled_approvals = {}
    /\ calls = <<>>
    /\ registered = <<>>

nonBusVars == <<directorVars, storeVars, mainVars, envVars, handled_approvals>>

RECURSIVE SumLen(_, _)
SumLen(subs, topics) ==
    IF topics = {} THEN 0
    ELSE LET t == CHOOSE x \in topics : TRUE
         IN  Len(subs[t]) + SumLen(subs, topics \ {t})

TotalSubscriptions == SumLen(subscribers, Topics)

\* variant: subscribe replays the history of the topic to the new handler
BusSubscribe_Replay(topic, handler) ==
    /\ TotalSubscriptions < MaxSubscriptions
    /\ subscribers' = Subscribe(subscribers, topic, handler)
    /\ ready' = ready \o SelectSeq([i \in DOMAIN history |->
                                       HandlerTask(handler, history[i])],
                                   LAMBDA t : t.event.topic = topic)
    /\ last' = Step("MessageBus.subscribe", NoEvent)
    /\ UNCHANGED <<history, next_uid, calls, registered, nonBusVars>>

\* bus.subscribe(topic, handler)
BusSubscribe(topic, handler) ==
    /\ TotalSubscriptions < MaxSubscriptions
    /\ subscribers' = Subscribe(subscribers, topic, handler)
    /\ last' = Step("MessageBus.subscribe", NoEvent)
    /\ UNCHANGED <<history, ready, next_uid, calls, registered, nonBusVars>>

\* variant: publish awaits each handler itself instead of scheduling a task
BusPublish_Inline(topic) ==
    /\ Len(history) < MaxEvents
    /\ LET event == Event(topic, EmptyDict, "system", next_uid)
           handlers == subscribers[topic]
       IN  /\ history' = Record(history, event)
           /\ calls' = calls \o [i \in 1..Len(handlers) |->
                                    [handler |-> handlers[i],
                                     id |-> event.id,
                                     outcome |-> "completed"]]
           /\ last' = Step("MessageBus.publish", event)
    /\ registered' = Append(registered, subscribers[topic])
    /\ next_uid' = next_uid + 1
    /\ UNCHANGED <<subscribers, ready, nonBusVars>>

\* await bus.publish(Event(topic))
BusPublish(topic) ==
    /\ Len(history) < MaxEvents
    /\ LET event == Event(topic, EmptyDict, "system", next_uid)
       IN  /\ history' = Record(history, event)
           /\ ready' = ready \o Dispatch(event)
           /\ last' = Step("MessageBus.publish", event)
    /\ registered' = Append(registered, subscribers[topic])
    /\ next_uid' = next_uid + 1
    /\ UNCHANGED <<subscribers, calls, nonBusVars>>

\* the loop runs the handler task at the head of the ready queue inside
\* _safe_execute; the handler completes or raises
BusRunHandler(outcome) ==
    /\ ready # <<>>
    /\ Head(ready).kind = "handler"
    /\ calls' = Append(calls, [handler |-> Head(ready).handler,
                               id |-> Head(ready).event.id,
                               outcome |-> outcome])
    /\ ready' = SafeExecute(outcome)
    /\ last' = Step(Head(ready).handler, Head(ready).event)
    /\ UNCHANGED <<subscribers, history, next_uid, registered, nonBusVars>>

NextBus ==
    \/ \E topic \in BusTopics, handler \in BusHandlers :
          BusSubscribe(topic, handler)
    \/ \E topic \in BusTopics : BusPublish(topic)
    \/ \E outcome \in {"completed", "raised"} : BusRunHandler(outcome)

SpecBus == InitBus /\ [][NextBus]_vars

\* how often a handler was registered for the topic of the i-th event when
\* that event was published
Registrations(i, handler) ==
    CountSeq(registered[i], LAMBDA h : h = handler)

Invocations(i, handler) ==
    CountSeq(calls, LAMBDA c : c.handler = handler /\ c.id = history[i].id)

Pending(i, handler) ==
    CountSeq(ready, LAMBDA t : t.handler = handler /\ t.event = history[i])

\* C1: for every published event and every handler, the invocations made
\* plus the invocations still scheduled equal the number of registrations of
\* the handler for the event's topic at the publish call, whatever the
\* outcome (completed or raised) of the invocations made so far; so when the
\* ready queue has drained each registration was invoked exactly once.
C1_OncePerRegistration ==
    \A i \in DOMAIN history :
        \A handler \in BusHandlers :
            /\ Invocations(i, handler) + Pending(i, handler)
                   = Registrations(i, handler)
            /\ ready = <<>> =>
                   Invocations(i, handler) = Registrations(i, handler)

\* an event with two registrations of one handler and a second handler: one
\* invocation raised, and all three have run
C1_Witness ==
    /\ ready = <<>>
    /\ \E i \in DOMAIN history :
          /\ Registrations(i, "handler_a") = 2
          /\ \E c \in Range(calls) : c.id = history[i].id /\ c.outcome = "raised"
          /\ \E c \in Range(calls) :
                 c.id = history[i].id /\ c.outcome = "completed"
          /\ Invocations(i, "handler_a") = 2

\* a step in which the loop ran a handler task
HandlerRan == calls' # calls

\* a step in which publish was called, and the event it was called with
Published == last' # last /\ last'.handler = "MessageBus.publish"

SomeHandlerRaised == \E c \in Range(calls) : c.outcome = "raised"

\* C11: a handler that raises is contained in its own task: the step removes
\* that task from the ready queue and nothing else, leaving the tasks
\* scheduled behind it, the history and the subscriptions as they were; and
\* after a handler has raised, every publish still appends its event to the
\* history and schedules one task per subscribed handler.
C11_HandlerFailureIsContained ==
    /\ [][HandlerRan =>
              /\ ready' = Tail(ready)
              /\ history' = history
              /\ subscribers' = subscribers]_vars
    /\ [][(SomeHandlerRaised /\ Published) =>
              LET event == last'.event
                  handlers == subscribers[event.topic]
              IN  /\ history' = Append(history, event)
                  /\ ready' = ready \o [i \in 1..Len(handlers) |->
                                           HandlerTask(handlers[i], event)]]_vars

\* a handler has raised, and the event published after that was appended to
\* the history and its handler scheduled
C11_Witness ==
    /\ SomeHandlerRaised
    /\ last.handler = "MessageBus.publish"
    /\ history[Len(history)] = last.event
    /\ \E handler \in BusHandlers : Pending(Len(history), handler) > 0

\* C12: publish returns once the handler tasks of its event are scheduled and
\* before the body of any of them has run: the publish step invokes no
\* handler, no invocation for the new event exists when it returns, and every
\* handler subscribed to the topic has its tasks waiting in the ready queue;
\* the publisher never waits for a handler.
C12_PublishReturnsBeforeHandlersRun ==
    [][Published =>
          LET event == last'.event
          IN  /\ calls' = calls
              /\ \A c \in Range(calls') : c.id # event.id
              /\ \A handler \in BusHandlers :
                     CountSeq(ready', LAMBDA t : t.handler = handler
                                                  /\ t.event = event)
                         = CountSeq(subscribers[event.topic],
                                    LAMBDA h : h = handler)]_vars

\* two publish calls have returned, the handlers of both events are scheduled
\* and none of them has run yet
C12_Witness ==
    /\ Len(history) = 2
    /\ calls = <<>>
    /\ \A i \in DOMAIN history :
          \E handler \in BusHandlers : Pending(i, handler) > 0

\* C13: the history is append-only and in publish order: a publish call
\* appends exactly its own event at the end, whether or not the topic has a
\* subscriber, and every other step (subscribe, a handler running) leaves
\* the history as it is, so no entry is ever removed, moved or modified.
C13_HistoryAppendOnly ==
    [][IF Published
         THEN history' = Append(history, last'.event)
         ELSE history' = history]_vars

\* an event published to a topic without any subscriber is in the history,
\* followed by a later event, after handlers have run
C13_Witness ==
    /\ calls # <<>>
    /\ \E i \in DOMAIN history :
          /\ registered[i] = <<>>
          /\ i < Len(history)
          /\ history[i].id < history[i + 1].id

\* a step in which subscribe was called
Subscribed == subscribers' # subscribers

\* C14: the bus never replays: a subscribe call schedules and invokes
\* nothing, and a handler that was not subscribed to the topic of an event
\* when the event was published is never invoked for it and never scheduled
\* for it, however long the event stays in the history.
C14_NoReplay ==
    /\ [][Subscribed =>
              /\ ready' = ready
              /\ calls' = calls
              /\ history' = history]_vars
    /\ [](\A i \in DOMAIN history :
             \A handler \in BusHandlers :
                 Registrations(i, handler) = 0 =>
                     /\ Invocations(i, handler) = 0
                     /\ Pending(i, handler) = 0)

\* a handler subscribed after the first event of a topic was published: it
\* has run for the second event of the topic and not for the first, which is
\* still in the history, and nothing is left to run
C14_Witness ==
    /\ ready = <<>>
    /\ Len(history) = 2
    /\ history[1].topic = history[2].topic
    /\ \E handler \in BusHandlers :
          /\ Registrations(1, handler) = 0
          /\ Registrations(2, handler) = 1
          /\ Invocations(1, handler) = 0
          /\ Invocations(2, handler) = 1

(***************************************************************************)
(* The handlers on their own: the Director and the Analysis agent in any   *)
(* state of their counters and of the world model, handed any one event;   *)
(* the tasks the handler schedules for the Director, for the Analysis      *)
(* agent and for the bus run after it.                                     *)
(***************************************************************************)
MaxCounter == 2

MaxConfigs == 2

\* the events a handler can be handed, each with the handler it is for
DeliveredTasks ==
    {HandlerTask(OnPlanApproved,
                 Event("PLAN_APPROVED", [configs |-> [i \in 1..n |-> 100 + i]],
                       "PlannerAgent", 1)) : n \in 0..MaxConfigs}
    \cup {HandlerTask(OnPlanRejected,
                      Event("PLAN_REJECTED", [feedback |-> "rejected"],
                            "PlanReviewerAgent", 1))}
    \cup {HandlerTask(OnExperimentCompleted,
                      Event("EXPERIMENT_COMPLETED", payload,
                            "ExecutorAgent", 1)) :
              payload \in {[result |-> RunExperiment(100)], EmptyDict,
                            [result |-> None], [result |-> EmptyDict]}}
    \cup {HandlerTask(OnInsightGenerated,
                      Event("INSIGHT_GENERATED",
                            [insights |-> [message |-> "Insufficient data"],
                             pareto_ids |-> <<>>,
                             cycle |-> 0],
                            "AnalysisAgent", 1))}
    \cup {HandlerTask(AnalysisHandler,
                      Event("STATE_UPDATED", payload, "Director", 1)) :
              payload \in {[trigger_analysis |-> TRUE, cycle |-> c] :
                               c \in 0..MaxCyclesArg}
                          \cup {[cycle |-> 0]}}

InitHandlers ==
    /\ subscribers = WiredSubscribers
    /\ history = <<>>
    /\ ready \in {<<task>> : task \in DeliveredTasks}
    /\ next_uid = 2
    /\ budget_max \in 1..MaxBudget
    /\ max_cycles \in 0..MaxCyclesArg
    /\ current_cycle \in 0..max_cycles
    /\ expected_experiments \in 0..MaxCounter
    /\ completed_experiments_cycle \in 0..MaxCounter
    /\ plan_retries \in 0..MaxRetries
    /\ stop_signal = FALSE
    /\ final_pareto = <<>>
    /\ final_insights = EmptyDict
    /\ \E n \in 0..MaxBudget : world_model = [i \in 1..n |-> RunExperiment(i)]
    /\ pareto_fronts = <<>>
    /\ llm_backend \in RunWideBackends
    /\ llm_calls = 0
    /\ NoCias
    /\ main_pc = "waiting"
    /\ returned = <<>>
    /\ initial_configs = <<>>
    /\ max_cycles_arg = max_cycles
    /\ planning = {}
    /\ running = {}
    /\ next_config = Len(world_model) + 1
    /\ last = Step("none", NoEvent)
    /\ handled_approvals = {}
    /\ calls = <<>>
    /\ registered = <<>>

NextHandlers ==
    \/ DirectorStep
    \/ AnalysisOnStateUpdated
    \/ RunPublishTask
    \/ RunAsyncReturn

SpecHandlers == InitHandlers /\ [][NextHandlers]_vars

\* C15: when the Analysis agent handles an analysis trigger while fewer than
\* three experiments are persisted (none included), it makes no LLM call and
\* saves no Pareto front, and it still publishes exactly one
\* INSIGHT_GENERATED, whose payload carries an empty Pareto list, the
\* insight {"message": "Insufficient data"} and the cycle of the trigger,
\* and which is dispatched to the Director.
C15_InsufficientData ==
    [][(/\ Handled(AnalysisHandler)
        /\ IsAnalysisTrigger(last'.event)
        /\ Len(world_model) < 3) =>
           /\ llm_calls' = llm_calls
           /\ pareto_fronts' = pareto_fronts
           /\ world_model' = world_model
           /\ Len(history') = Len(history) + 1
           /\ LET insight == history'[Len(history')]
              IN  /\ history' = Append(history, insight)
                  /\ insight.topic = "INSIGHT_GENERATED"
                  /\ insight.payload =
                         [insights |-> [message |-> "Insufficient data"],
                          pareto_ids |-> <<>>,
                          cycle |-> last'.event.payload.cycle]
                  /\ ready' = Tail(ready)
                         \o <<HandlerTask(OnInsightGenerated, insight)>>]_vars

\* the Analysis agent was triggered with an empty world model and with two
\* experiments, and answered with the insufficient-data insight
C15_Witness ==
    /\ last.handler = AnalysisHandler
    /\ IsAnalysisTrigger(last.event)
    /\ Len(world_model) \in {0, 2}
    /\ history # <<>>
    /\ history[Len(history)].topic = "INSIGHT_GENERATED"
    /\ history[Len(history)].payload.insights.message = "Insufficient data"
    /\ llm_calls = 0

\* a PLAN_APPROVED was handled by the Director in the current cycle
PlanApprovedThisCycle ==
    \E approval \in handled_approvals : approval.cycle = current_cycle

C17_CompletionEffect ==
    [][(/\ Handled(OnExperimentCompleted)
        /\ "result" \in DOMAIN last'.event.payload
        /\ last'.event.payload.result \notin {None, EmptyDict}) =>
           /\ world_model' = Append(world_model, last'.event.payload.result)
           /\ completed_experiments_cycle' = completed_experiments_cycle + 1
           /\ IF \/ /\ completed_experiments_cycle' >= expected_experiments'
                     /\ expected_experiments' > 0
                  \/ Len(world_model') >= budget_max
              THEN /\ Len(history') = Len(history) + 1
                   /\ LET trigger == history'[Len(history')]
                      IN  /\ history' = Append(history, trigger)
                          /\ trigger.topic = "STATE_UPDATED"
                          /\ trigger.payload = [trigger_analysis |-> TRUE,
                                                cycle |-> current_cycle]
                          /\ ready' = Tail(ready)
                                 \o <<HandlerTask(AnalysisHandler, trigger)>>
              ELSE /\ history' = history
                   /\ ready' = Tail(ready)]_vars

\* a completion that reached the budget ceiling before its batch was drained
\* was followed by the analysis trigger
C17_Witness ==
    /\ last.handler = OnExperimentCompleted
    /\ "result" \in DOMAIN last.event.payload
    /\ completed_experiments_cycle < expected_experiments
    /\ Len(world_model) = budget_max
    /\ history # <<>>
    /\ IsAnalysisTriggerOf(history[Len(history)], current_cycle)

\* C18: when the Director handles INSIGHT_GENERATED it starts the next cycle
\* (cycle number plus one, one task that will publish PLAN_REQUESTED, latch
\* untouched) if the persisted experiments are fewer than budget_max and
\* current_cycle is less than max_cycles; otherwise it sets the completion
\* latch and starts nothing; and no other step of the run ever changes the
\* latch.
C18_InsightDecision ==
    /\ [][Handled(OnInsightGenerated) =>
              IF Len(world_model) < budget_max /\ current_cycle < max_cycles
              THEN /\ current_cycle' = current_cycle + 1
                   /\ NewCycleRequestCreated
                   /\ stop_signal' = stop_signal
              ELSE /\ stop_signal'
                   /\ ~NewCycleRequestCreated
                   /\ UNCHANGED counterVars]_vars
    /\ [][stop_signal' # stop_signal =>
              /\ Handled(OnInsightGenerated)
              /\ stop_signal']_vars

\* an insight was handled with budget and cycles left: the next cycle has
\* started and the latch is not set
C18_Witness ==
    /\ last.handler = OnInsightGenerated
    /\ current_cycle = 1
    /\ ~stop_signal
    /\ Len(world_model) < budget_max
    /\ \E task \in Range(ready) :
          task.kind = "publish" /\ IsPlanRequestOf(task.event, 1)

\* the PLAN_REQUESTED events of a cycle: published, or handed to a task that
\* has not published yet
PlanRequestsOf(cycle) ==
    CountSeq(history, LAMBDA e : IsPlanRequestOf(e, cycle))
        + CountSeq(ready, LAMBDA t : /\ t.kind = "publish"
                                     /\ IsPlanRequestOf(t.event, cycle))

\* C19: current_cycle never decreases; it changes only when the Director
\* handles the insight of an analysis and continues, and then by exactly
\* one; in that step expected_experiments, completed_experiments_cycle and
\* plan_retries are reset to 0 and exactly one PLAN_REQUESTED for the new
\* cycle number is handed to the bus.  Each cycle left behind had exactly one
\* analysis, and the requests of the current cycle are the one of its start
\* plus one per retry.
C19_CycleAdvance ==
    /\ [][current_cycle' >= current_cycle]_vars
    /\ [][current_cycle' # current_cycle =>
              /\ Handled(OnInsightGenerated)
              /\ current_cycle' = current_cycle + 1
              /\ expected_experiments' = 0
              /\ completed_experiments_cycle' = 0
              /\ plan_retries' = 0
              /\ Len(ready') = Len(ready)
              /\ SubSeq(ready', 1, Len(ready) - 1) = Tail(ready)
              /\ ready'[Len(ready')].kind = "publish"
              /\ IsPlanRequestOf(ready'[Len(ready')].event, current_cycle')
              /\ history' = history]_vars
    /\ [](\A cycle \in 0..(current_cycle - 1) :
             CountSeq(history, LAMBDA e : IsInsightOf(e, cycle)) = 1)
    /\ [](current_cycle >= 1 =>
             PlanRequestsOf(current_cycle) = 1 + plan_retries)

\* the second increment: cycle 1 had a rejected plan, cycle 2 has begun with
\* its counters at 0 and its one PLAN_REQUESTED published
C19_Witness ==
    /\ current_cycle = 2
    /\ plan_retries = 0
    /\ expected_experiments = 0
    /\ completed_experiments_cycle = 0
    /\ CountSeq(history, LAMBDA e : IsPlanRequestOf(e, 1)) >= 2
    /\ CountSeq(history, LAMBDA e : IsPlanRequestOf(e, 2)) = 1

\* C20: when the Director handles PLAN_APPROVED it adds the number of
\* configurations of the plan to expected_experiments, on top of what
\* earlier approvals of the cycle have added, and changes nothing else:
\* completed_experiments_cycle, plan_retries, current_cycle, the latch, the
\* final snapshot and the world model stay as they are, no event is
\* published and no task is scheduled.
C20_PlanApprovedEffect ==
    [][Handled(OnPlanApproved) =>
          /\ expected_experiments' =
                 expected_experiments + Len(last'.event.payload.configs)
          /\ UNCHANGED <<completed_experiments_cycle, plan_retries,
                         current_cycle, stop_signal, final_pareto,
                         final_insights, world_model>>
          /\ history' = history
          /\ ready' = Tail(ready)]_vars

\* a plan of two was approved when experiments were already expected in the
\* cycle: the two were added
C20_Witness ==
    /\ last.handler = OnPlanApproved
    /\ Len(last.event.payload.configs) = 2
    /\ expected_experiments = 4
    /\ completed_experiments_cycle = 1

\* the step just taken published an event of the given topic
PublishedTopic(topic) ==
    /\ Len(history') = Len(history) + 1
    /\ history'[Len(history')].topic = topic

\* C21: every PLAN_REQUESTED that reaches the bus, whether published by the
\* rejection handler for a retry or by the task created at the start of a
\* cycle, carries budget = min(3, budget_max - experiments persisted when it
\* is published) and cycle = current_cycle.
C21_PlanRequestPayload ==
    [][PublishedTopic("PLAN_REQUESTED") =>
          LET request == history'[Len(history')]
          IN  /\ request.payload.budget =
                     Min(3, budget_max' - Len(world_model'))
              /\ request.payload.cycle = current_cycle'
              /\ request.sender = "Director"]_vars

\* the task created at the start of a cycle has published its request while
\* more than three experiments were left in the budget: the budget is capped
\* at 3
C21_Witness ==
    /\ budget_max - Len(world_model) > 3
    /\ history # <<>>
    /\ history[Len(history)].topic = "PLAN_REQUESTED"
    /\ history[Len(history)].payload.budget = 3
    /\ last.handler = "MessageBus.publish"
    /\ current_cycle >= 1

(***************************************************************************)
(* The Director's handlers statement by statement.  A handler task that    *)
(* the loop runs becomes a frame at the head of the ready queue; the frame *)
(* reads the counter it is about to change, changes it, and publishes.     *)
(* The loop switches to another task only where the running frame is       *)
(* suspended in an await; events for the Director arrive from the other    *)
(* agents at any time.  Only the Director is subscribed.                   *)
(***************************************************************************)
MaxDelivered == 3

DirectorHandlers ==
    {OnPlanApproved, OnPlanRejected, OnExperimentCompleted, OnInsightGenerated}

\* the counter a handler reads and writes back
CounterOf(handler) ==
    CASE handler = OnPlanApproved -> expected_experiments
      [] handler = OnPlanRejected -> plan_retries
      [] handler = OnExperimentCompleted -> completed_experiments_cycle
      [] handler = OnInsightGenerated -> current_cycle

Frame(task, pc, reg) ==
    [kind |-> "frame", handler |-> task.handler, event |-> task.event,
     pc |-> pc, reg |-> reg, yielded |-> FALSE]

\* variant: the handler is also suspended between reading a counter and
\* writing it back
Suspends_AfterRead(pc) == pc \in {"read", "await"}

\* the places where a handler can be suspended: its await of bus.publish
Suspends(pc) == pc = "await"

InitSteps ==
    /\ subscribers = DirectorSubscriptions(EmptySubscribers)
    /\ history = <<>>
    /\ ready = <<>>
    /\ next_uid = 1
    /\ budget_max \in 1..MaxBudget
    /\ max_cycles \in 0..MaxCyclesArg
    /\ current_cycle = 0
    /\ expected_experiments = 0
    /\ completed_experiments_cycle = 0
    /\ plan_retries = 0
    /\ stop_signal = FALSE
    /\ final_pareto = <<>>
    /\ final_insights = EmptyDict
    /\ world_model = <<>>
    /\ pareto_fronts = <<>>
    /\ llm_backend = [s \in LlmSteps |-> "answer"]
    /\ llm_calls = 0
    /\ NoCias
    /\ main_pc = "waiting"
    /\ returned = <<>>
    /\ initial_configs = <<>>
    /\ max_cycles_arg = max_cycles
    /\ planning = {}
    /\ running = {}
    /\ next_config = 1
    /\ last = Step("none", NoEvent)
    /\ handled_approvals = {}
    /\ calls = <<>>
    /\ registered = <<>>

\* another agent publishes an event the Director is subscribed to
DeliverEvent ==
    /\ CountSeq(history, LAMBDA e : e.sender # "Director") < MaxDelivered
    /\ \E task \in DeliveredTasks :
          /\ task.handler \in DirectorHandlers
          /\ LET event == [task.event EXCEPT !.id = next_uid]
             IN  /\ history' = Record(history, event)
                 /\ ready' = ready \o Dispatch(event)
    /\ next_uid' = next_uid + 1
    /\ last' = Step("agent", NoEvent)
    /\ UNCHANGED <<subscribers, directorVars, storeVars, mainVars, envVars,
                   obsVars>>

\* the loop starts the handler task at the head of the ready queue: the
\* handler runs up to the read of its counter
HandlerEnter ==
    /\ ready # <<>>
    /\ Head(ready).kind = "handler"
    /\ Head(ready).handler \in DirectorHandlers
    /\ LET task == Head(ready)
           handler == task.handler
           result == Get(task.event.payload, "result", None)
           frame == Frame(task, "read", CounterOf(handler))
       IN  /\ last' = Step(handler, task.event)
           /\ world_model' =
                  IF handler = OnExperimentCompleted /\ Truthy(result)
                  THEN Append(world_model, result)
                  ELSE world_model
           /\ ready' =
                  IF handler = OnExperimentCompleted /\ ~Truthy(result)
                  THEN Tail(ready)
                  ELSE <<frame>> \o Tail(ready)
           /\ final_insights' =
                  IF handler = OnInsightGenerated
                  THEN Get(task.event.payload, "insights", EmptyDict)
                  ELSE final_insights
           /\ final_pareto' =
                  IF handler = OnInsightGenerated
                  THEN Get(task.event.payload, "pareto_ids", <<>>)
                  ELSE final_pareto
    /\ UNCHANGED <<subscribers, history, next_uid, budget_max, max_cycles,
                   counterVars, stop_signal, pareto_fronts, llm_backend,
                   llm_calls, ciasVars, workflowVars, sync>>
    /\ UNCHANGED <<mainVars, envVars, obsVars>>

\* what the rest of a handler does with the value it read: the counters it
\* leaves, the event it publishes and the task it creates
HandlerEffect(frame) ==
    LET handler == frame.handler
        reg == frame.reg
        keep == [expected |-> expected_experiments,
                 completed |-> completed_experiments_cycle,
                 retries |-> plan_retries,
                 cycle |-> current_cycle,
                 stop |-> stop_signal,
                 published |-> <<>>,
                 created |-> <<>>]
        request(cycle, budget_used) ==
            Event("PLAN_REQUESTED",
                  [budget |-> PlanBudget(budget_used), cycle |-> cycle],
                  "Director", next_uid)
    IN  CASE handler = OnPlanApproved ->
                 [keep EXCEPT !.expected =
                      reg + Len(Get(frame.event.payload, "configs", <<>>))]
          [] handler = OnPlanRejected ->
                 IF reg < MaxRetries
                 THEN [keep EXCEPT !.retries = reg + 1,
                                   !.published =
                                       <<request(current_cycle, TotalPersisted)>>]
                 ELSE [keep EXCEPT !.published = <<StateUpdated(next_uid)>>]
          [] handler = OnExperimentCompleted ->
                 [keep EXCEPT !.completed = reg + 1,
                              !.published =
                                  IF \/ BatchDone(reg + 1, expected_experiments)
                                     \/ BudgetExhausted(TotalPersisted)
                                  THEN <<StateUpdated(next_uid)>>
                                  ELSE <<>>]
          [] handler = OnInsightGenerated ->
                 IF ShouldContinue(TotalPersisted)
                 THEN [keep EXCEPT !.cycle = reg + 1,
                                   !.retries = 0,
                                   !.expected = 0,
                                   !.completed = 0,
                                   !.created =
                                       <<PublishTask(request(reg + 1,
                                                             TotalPersisted))>>]
                 ELSE [keep EXCEPT !.stop = TRUE, !.created = WakeOnSet]

\* the running handler writes its counter back and goes on to its publish
HandlerUpdate ==
    /\ ready # <<>>
    /\ Head(ready).kind = "frame"
    /\ Head(ready).pc = "read"
    /\ LET frame == Head(ready)
           effect == HandlerEffect(frame)
           awaiting == IF effect.published = <<>>
                       THEN <<>>
                       ELSE <<[frame EXCEPT !.pc = "await"]>>
           dispatched == IF effect.published = <<>>
                         THEN <<>>
                         ELSE Dispatch(effect.published[1])
       IN  /\ expected_experiments' = effect.expected
           /\ completed_experiments_cycle' = effect.completed
           /\ plan_retries' = effect.retries
           /\ current_cycle' = effect.cycle
           /\ stop_signal' = effect.stop
           /\ history' = history \o effect.published
           /\ ready' = awaiting \o Tail(ready) \o dispatched \o effect.created
           /\ next_uid' = next_uid + Len(effect.published)
                              + CountSeq(effect.created,
                                         LAMBDA t : t.kind = "publish")
           /\ calls' = Append(calls, [handler |-> frame.handler,
                                      id |-> frame.event.id,
                                      outcome |-> "updated",
                                      read |-> frame.reg,
                                      found |-> CounterOf(frame.handler)])
           /\ last' = Step(frame.handler, frame.event)
    /\ UNCHANGED <<subscribers, budget_max, max_cycles, final_pareto,
                   final_insights, handled_approvals, registered>>
    /\ UNCHANGED <<storeVars, mainVars, envVars>>

\* the loop leaves a suspended handler and runs the next ready task
HandlerYield ==
    /\ Len(ready) > 1
    /\ Head(ready).kind = "frame"
    /\ Suspends(Head(ready).pc)
    /\ ~Head(ready).yielded
    /\ ready' = Tail(ready) \o <<[Head(ready) EXCEPT !.yielded = TRUE]>>
    /\ UNCHANGED <<subscribers, history, next_uid, last>>
    /\ UNCHANGED <<directorVars, storeVars, mainVars, envVars, obsVars>>

\* the handler returns from its await and ends
HandlerReturn ==
    /\ ready # <<>>
    /\ Head(ready).kind = "frame"
    /\ Head(ready).pc = "await"
    /\ ready' = Tail(ready)
    /\ UNCHANGED <<subscribers, history, next_uid, last>>
    /\ UNCHANGED <<directorVars, storeVars, mainVars, envVars, obsVars>>

NextSteps ==
    \/ DeliverEvent
    \/ HandlerEnter
    \/ HandlerUpdate
    \/ HandlerYield
    \/ HandlerReturn
    \/ RunPublishTask
    \/ RunAsyncReturn

SpecSteps == InitSteps /\ [][NextSteps]_vars

\* C22: the Director's counters change only in the write-back of one of the
\* Director's own handlers, and the handlers are serialized around their
\* counters: whenever a handler writes a counter back, the counter still has
\* the value the handler read, so no update of another handler is lost,
\* however the loop interleaves the handler tasks at their awaits.
C22_SerializedCounterUpdates ==
    /\ [](\A c \in Range(calls) : c.read = c.found)
    /\ [][counterVars' # counterVars =>
              /\ Head(ready).kind = "frame"
              /\ Head(ready).handler \in DirectorHandlers
              /\ calls' = Append(calls, calls'[Len(calls')])
              /\ calls'[Len(calls')].read = calls'[Len(calls')].found]_vars

\* a handler is suspended in its await of publish while two other handlers
\* have read and written the counter it changed
C22_Witness ==
    \E i \in DOMAIN ready :
        /\ ready[i].kind = "frame"
        /\ ready[i].yielded
        /\ Cardinality({k \in DOMAIN calls :
                            /\ calls[k].handler = ready[i].handler
                            /\ calls[k].id > ready[i].event.id}) >= 2

\* the INSIGHT_GENERATED events the Director has handled: those of the
\* history whose Director task is no longer waiting in the ready queue
HandledInsights ==
    {i \in DOMAIN history :
        /\ history[i].topic = "INSIGHT_GENERATED"
        /\ \A t \in Range(ready) :
               ~(t.kind = "handler" /\ t.handler = OnInsightGenerated
                                    /\ t.event = history[i])}

LastHandledInsight ==
    history[CHOOSE i \in HandledInsights : \A j \in HandledInsights : j <= i]

\* the step in which run_async returns
RunReturns == main_pc # "returned" /\ main_pc' = "returned"

\* C23: when run_async returns, it returns the Pareto ids and the insights
\* carried by the INSIGHT_GENERATED event the Director handled last before
\* the return, which may be an event handled after the latch was set and
\* before run_async resumed.
C23_ReturnsLatestInsight ==
    [][RunReturns =>
          /\ HandledInsights # {}
          /\ returned' = <<LastHandledInsight.payload.pareto_ids,
                           LastHandledInsight.payload.insights>>]_vars

\* run_async has just returned after the Director handled two insights with
\* different contents, the second one after the latch was set
C23_Witness ==
    /\ main_pc = "returned"
    /\ last.handler = "AIScientist.run_async"
    /\ \E i, j \in HandledInsights :
          /\ i < j
          /\ history[i].payload.insights # history[j].payload.insights
          /\ returned[2] = history[j].payload.insights

\* C24: when the Analysis agent handles a STATE_UPDATED whose payload has
\* trigger_analysis true it publishes exactly one INSIGHT_GENERATED, with
\* the cycle number of the trigger, dispatched to the Director; when it
\* handles a STATE_UPDATED without trigger_analysis true it publishes
\* nothing, saves nothing and calls no LLM.
C24_OneInsightPerTrigger ==
    [][Handled(AnalysisHandler) =>
          IF IsAnalysisTrigger(last'.event)
          THEN /\ Len(history') = Len(history) + 1
               /\ SubSeq(history', 1, Len(history)) = history
               /\ history'[Len(history')].topic = "INSIGHT_GENERATED"
               /\ history'[Len(history')].payload.cycle
                      = last'.event.payload.cycle
               /\ CountSeq(ready', LAMBDA t : t.kind = "handler"
                                              /\ t.handler = OnInsightGenerated)
                      = CountSeq(ready, LAMBDA t : t.kind = "handler"
                                               /\ t.handler = OnInsightGenerated)
                            + 1
          ELSE /\ history' = history
               /\ ready' = Tail(ready)
               /\ UNCHANGED <<pareto_fronts, llm_calls>>]_vars

\* a trigger for cycle 2 was handled with at least three experiments: the
\* insight of cycle 2 is the last event published
C24_Witness ==
    /\ last.handler = AnalysisHandler
    /\ IsAnalysisTriggerOf(last.event, 2)
    /\ Len(world_model) >= 3
    /\ history # <<>>
    /\ IsInsightOf(history[Len(history)], 2)
    /\ "pareto_front" \in DOMAIN history[Len(history)].payload.insights

(***************************************************************************)
(* The Analysis agent on its own: one analysis trigger, any world model of *)
(* up to MaxPoints experiments, and any behaviour of the LLM client in     *)
(* each of the three LLM steps.                                            *)
(***************************************************************************)
InitAnalysis ==
    /\ subscribers = WiredSubscribers
    /\ history = <<>>
    /\ \E cycle \in 0..MaxCyclesArg :
          ready = <<HandlerTask(AnalysisHandler,
                                Event("STATE_UPDATED",
                                      [trigger_analysis |-> TRUE,
                                       cycle |-> cycle],
                                      "Director", 1))>>
    /\ next_uid = 2
    /\ budget_max = 1
    /\ max_cycles = DefaultMaxCycles
    /\ current_cycle = 0
    /\ expected_experiments = 0
    /\ completed_experiments_cycle = 0
    /\ plan_retries = 0
    /\ stop_signal = FALSE
    /\ final_pareto = <<>>
    /\ final_insights = EmptyDict
    /\ \E n \in 0..MaxPoints :
          \E points \in [1..n -> PointSet] :
              world_model = [i \in 1..n |-> ExperimentResult(i, points[i])]
    /\ pareto_fronts = <<>>
    /\ llm_backend \in [LlmSteps -> LlmOutcomes]
    /\ llm_calls = 0
    /\ NoCias
    /\ main_pc = "waiting"
    /\ returned = <<>>
    /\ initial_configs = <<>>
    /\ max_cycles_arg = 0
    /\ planning = {}
    /\ running = {}
    /\ next_config = 1
    /\ last = Step("none", NoEvent)
    /\ handled_approvals = {}
    /\ calls = <<>>
    /\ registered = <<>>

NextAnalysis == AnalysisOnStateUpdated

SpecAnalysis == InitAnalysis /\ [][NextAnalysis]_vars

\* the fallback an LLM step must leave in the insights when it failed
FellBack(step, value) ==
    llm_backend[step] # "answer" =>
        /\ "error" \in DOMAIN value
        /\ value.error = ErrorText(llm_backend[step])
        /\ IF step = "verify"
           THEN value = [is_reasonable |-> TRUE, error |-> value.error]
           ELSE value = [error |-> value.error]

\* C25: with at least three persisted experiments, whichever of the three
\* LLM steps fail (backend error or unparsable answer), the analysis goes
\* through: a failed verification is replaced by is_reasonable = true with
\* the error text, failed trends and recommendations by a record holding the
\* error text, the Pareto front is computed and saved for the cycle, and
\* one INSIGHT_GENERATED carrying the front and these insights is published.
C25_LlmFailureAbsorbed ==
    [][(Handled(AnalysisHandler) /\ Len(world_model) >= 3) =>
          /\ Len(history') = Len(history) + 1
          /\ LET insight == history'[Len(history')]
                 cycle == last'.event.payload.cycle
                 front == ComputeParetoFront(world_model)
             IN  /\ insight.topic = "INSIGHT_GENERATED"
                 /\ insight.payload.cycle = cycle
                 /\ insight.payload.pareto_ids = front
                 /\ insight.payload.insights.pareto_front.experiment_ids = front
                 /\ FellBack("verify",
                             insight.payload.insights.pareto_front.verification)
                 /\ FellBack("trends", insight.payload.insights.trends)
                 /\ FellBack("recommendations",
                             insight.payload.insights.recommendations)
                 /\ pareto_fronts' =
                        Append(pareto_fronts,
                               [cycle |-> cycle, pareto_ids |-> front])
                 /\ ready' = Tail(ready)
                        \o <<HandlerTask(OnInsightGenerated, insight)>>]_vars

\* an analysis of three experiments in which the verification answer was
\* unparsable, the trends call raised and the recommendations succeeded
C25_Witness ==
    /\ last.handler = AnalysisHandler
    /\ Len(world_model) = 3
    /\ llm_backend["verify"] = "unparsable"
    /\ llm_backend["trends"] = "backend_error"
    /\ llm_backend["recommendations"] = "answer"
    /\ pareto_fronts # <<>>
    /\ history # <<>>
    /\ history[Len(history)].payload.insights.pareto_front.verification
           = [is_reasonable |-> TRUE, error |-> "JSONDecodeError"]

\* the handlers invoked so far for the i-th event, in invocation order
InvokedFor(i) ==
    LET mine == SelectSeq(calls, LAMBDA c : c.id = history[i].id)
    IN  [k \in DOMAIN mine |-> mine[k].handler]

\* C26: a publish schedules the handler tasks of its event in the order in
\* which the handlers were subscribed to the topic, and they are invoked in
\* that order; a subscribe call appends one handler to the list of its
\* topic and leaves the handlers already subscribed to any topic in place
\* and in order.
C26_SubscriptionOrder ==
    /\ [][Published =>
              LET handlers == subscribers[last'.event.topic]
              IN  /\ Len(ready') = Len(ready) + Len(handlers)
                  /\ \A i \in DOMAIN handlers :
                         /\ ready'[Len(ready) + i].handler = handlers[i]
                         /\ ready'[Len(ready) + i].event = last'.event]_vars
    /\ [][Subscribed =>
              \E topic \in Topics :
                  /\ Len(subscribers'[topic]) = Len(subscribers[topic]) + 1
                  /\ SubSeq(subscribers'[topic], 1, Len(subscribers[topic]))
                         = subscribers[topic]
                  /\ \A other \in Topics \ {topic} :
                         subscribers'[other] = subscribers[other]]_vars
    /\ [](\A i \in DOMAIN history :
             InvokedFor(i) = SubSeq(registered[i], 1, Len(InvokedFor(i))))

\* handler_b subscribed to a topic before handler_a, a later subscription to
\* the topic did not disturb them, and an event of the topic reached
\* handler_b first, then handler_a
C26_Witness ==
    /\ ready = <<>>
    /\ \E i \in DOMAIN history :
          /\ registered[i] = <<"handler_b", "handler_a">>
          /\ InvokedFor(i) = <<"handler_b", "handler_a">>
          /\ Len(subscribers[history[i].topic]) = 3

(***************************************************************************)
(* CIASWorldModel (src/src/cias_x/world_model.py): the SQLite store of     *)
(* designs, plans and Pareto frontiers.                                    *)
(*                                                                         *)
(* Every method opens a connection of its own (_get_conn) and runs its     *)
(* statements one after the other; calls made from different threads or    *)
(* processes interleave statement by statement.  `db` is the committed     *)
(* content of the database, which is what a connection without an open     *)
(* transaction reads.  A connection with an open transaction holds the     *)
(* write lock and reads its own working copy; COMMIT publishes the copy    *)
(* and ROLLBACK drops it.  A writer that finds the lock taken waits for    *)
(* it (timeout=30); the wait running out is not modelled.                  *)
(*                                                                         *)
(* _init_db declares the column last_summary_plan_id of designs twice,     *)
(* which SQLite rejects when it creates the table; the store is modelled   *)
(* over a database file in which the tables exist (CREATE TABLE IF NOT     *)
(* EXISTS then leaves them alone), with the columns the methods use.       *)
(***************************************************************************)
MaxCalls == 3             \* calls made in one run

Conns == {1, 2}           \* connections that can be open at a time
Designs == {1, 2}         \* ids of the rows of designs
Amounts == {1, 2}         \* token_used arguments
TokenTypes == {"plan", "analysis", "global_summary", "none"}
StrataSet == {"low", "high"}
Null == <<>>              \* SQL NULL, Python None
NoTxn == <<>>             \* the connection has no open transaction

\* arguments of update_pareto_frontiers: the third item has rank None
Items ==
    {[experiment_id |-> "exp_1", rank |-> <<1>>],
     [experiment_id |-> "exp_2", rank |-> <<2>>],
     [experiment_id |-> "exp_3", rank |-> Null]}
FrontierLists == UNION {[1..n -> Items] : n \in 0..2}

\* a row of designs as _create_design leaves it
NewDesign == [global_summary |-> "", last_summary_plan_id |-> Null,
              token_used |-> 0]

\* a row of plans as create_plan leaves it; its id is its position
NewPlan(design_id) ==
    [design_id |-> design_id, token_total_used |-> 0, token_plan_used |-> 0,
     token_analysis_used |-> 0, token_global_summary_used |-> 0]

Idle == [op |-> "idle", pc |-> "idle", args |-> <<>>, reg |-> <<>>,
         txn |-> NoTxn, alone |-> TRUE]

InitStore ==
    /\ subscribers = EmptySubscribers
    /\ history = <<>>
    /\ ready = <<>>
    /\ next_uid = 1
    /\ budget_max = 1
    /\ max_cycles = DefaultMaxCycles
    /\ current_cycle = 0
    /\ expected_experiments = 0
    /\ completed_experiments_cycle = 0
    /\ plan_retries = 0
    /\ stop_signal = FALSE
    /\ final_pareto = <<>>
    /\ final_insights = EmptyDict
    /\ world_model = <<>>
    /\ pareto_fronts = <<>>
    /\ llm_backend = [s \in LlmSteps |-> "answer"]
    /\ llm_calls = 0
    /\ main_pc = "start"
    /\ returned = <<>>
    /\ initial_configs = <<>>
    /\ max_cycles_arg = 0
    /\ planning = {}
    /\ running = {}
    /\ next_config = 1
    /\ last = Step("none", NoEvent)
    /\ handled_approvals = {}
    /\ calls = <<>>
    /\ registered = <<>>
    /\ db = [designs |-> [d \in Designs |-> NewDesign],
             plans |-> <<>>,
             pareto_frontiers |-> <<>>,
             pareto_seq |-> 0]
    /\ conns = [c \in Conns |-> Idle]
    /\ oplog = <<>>
    /\ NoWorkflow
    /\ sync = <<>>

nonCiasVars == <<busVars, directorVars, world_model, pareto_fronts,
                 llm_backend, llm_calls, mainVars, envVars, obsVars, last,
                 workflowVars, sync>>

InCall(c) == conns[c].op # "idle"
AllIdle == \A c \in Conns : ~InCall(c)
Started == Len(oplog) + Cardinality({c \in Conns : InCall(c)})
CanStart(c) == ~InCall(c) /\ Started < MaxCalls

\* variant: the connection is in autocommit mode, every statement is a
\* transaction of its own
OpensTransaction_Never(stmt) == FALSE

\* sqlite3.connect with the default isolation_level: the module issues BEGIN
\* before INSERT, UPDATE and DELETE, and not before SELECT
OpensTransaction(stmt) == stmt \in {"INSERT", "UPDATE", "DELETE"}

\* the database as connection c reads it
View(c) == IF conns[c].txn = NoTxn THEN db ELSE conns[c].txn[1]

\* the write lock is free, or c holds it
CanWrite(c) == \A o \in Conns \ {c} : conns[o].txn = NoTxn

\* cursor.execute of a writing statement whose result is `working`
Execute(c, stmt, working) ==
    IF conns[c].txn # NoTxn \/ OpensTransaction(stmt)
    THEN [db |-> db, txn |-> <<working>>]
    ELSE [db |-> working, txn |-> NoTxn]

\* conn.commit(): the committed database afterwards
Commit(c) == IF conns[c].txn = NoTxn THEN db ELSE conns[c].txn[1]

\* a call starts on connection c; `alone` records whether any other call
\* overlapped it
Enter(c, op, pc, args, reg, txn) ==
    [o \in Conns |->
        IF o = c
        THEN [op |-> op, pc |-> pc, args |-> args, reg |-> reg, txn |-> txn,
              alone |-> \A x \in Conns \ {c} : ~InCall(x)]
        ELSE IF InCall(o) THEN [conns[o] EXCEPT !.alone = FALSE]
             ELSE conns[o]]

\* the call on connection c returns or raises; _get_conn closes the
\* connection
Leave(c, entry) ==
    /\ conns' = [conns EXCEPT ![c] = Idle]
    /\ oplog' = Append(oplog, entry)

(***************************************************************************)
(* append_plan_token_used(plan_id, token_used, token_type)                 *)
(***************************************************************************)
\* SELECT token_total_used, ... FROM plans WHERE id = ?
AppendSelectCounters(c) ==
    /\ CanStart(c)
    /\ \E plan_id \in DOMAIN db.plans, token_used \in Amounts,
          token_type \in TokenTypes :
          conns' = Enter(c, "append_plan_token_used", "update_plan",
                         [plan_id |-> plan_id, token_used |-> token_used,
                          token_type |-> token_type],
                         [row |-> db.plans[plan_id]], NoTxn)
    /\ UNCHANGED <<db, oplog, nonCiasVars>>

\* the token_type branches, then UPDATE plans SET token_total_used = ?, ...
AppendUpdatePlan(c) ==
    /\ conns[c].op = "append_plan_token_used"
    /\ conns[c].pc = "update_plan"
    /\ CanWrite(c)
    /\ LET args == conns[c].args
           row == conns[c].reg.row
           bump(type, old) == IF args.token_type = type
                              THEN old + args.token_used ELSE old
           working ==
               [View(c) EXCEPT !.plans[args.plan_id] =
                   [@ EXCEPT
                      !.token_total_used =
                          row.token_total_used + args.token_used,
                      !.token_plan_used = bump("plan", row.token_plan_used),
                      !.token_analysis_used =
                          bump("analysis", row.token_analysis_used),
                      !.token_global_summary_used =
                          bump("global_summary",
                               row.token_global_summary_used)]]
           done == Execute(c, "UPDATE", working)
       IN  /\ db' = done.db
           /\ conns' = [conns EXCEPT ![c].txn = done.txn,
                                     ![c].pc = "update_design"]
    /\ UNCHANGED <<oplog, nonCiasVars>>

\* SELECT design_id FROM plans, SELECT token_used FROM designs,
\* UPDATE designs SET token_used = ?
AppendUpdateDesign(c) ==
    /\ conns[c].op = "append_plan_token_used"
    /\ conns[c].pc = "update_design"
    /\ CanWrite(c)
    /\ LET args == conns[c].args
           row == conns[c].reg.row
           design_id == View(c).plans[args.plan_id].design_id
           design_token_used == View(c).designs[design_id].token_used
           working ==
               [View(c) EXCEPT !.designs[design_id].token_used =
                   design_token_used + row.token_total_used
                       + args.token_used]
           done == Execute(c, "UPDATE", working)
       IN  /\ db' = done.db
           /\ conns' = [conns EXCEPT ![c].txn = done.txn,
                                     ![c].pc = "commit"]
    /\ UNCHANGED <<oplog, nonCiasVars>>

\* conn.commit()
AppendCommit(c) ==
    /\ conns[c].op = "append_plan_token_used"
    /\ conns[c].pc = "commit"
    /\ db' = Commit(c)
    /\ Leave(c, [op |-> "append_plan_token_used",
                 plan_id |-> conns[c].args.plan_id,
                 token_used |-> conns[c].args.token_used,
                 alone |-> conns[c].alone])
    /\ UNCHANGED nonCiasVars

(***************************************************************************)
(* create_plan(design_id)                                                  *)
(***************************************************************************)
\* INSERT INTO plans (design_id) VALUES (?)
CreatePlanInsert(c) ==
    /\ CanStart(c)
    /\ CanWrite(c)
    /\ \E design_id \in Designs :
          LET working == [db EXCEPT !.plans = Append(@, NewPlan(design_id))]
              done == Execute(c, "INSERT", working)
          IN  /\ db' = done.db
              /\ conns' = Enter(c, "create_plan", "commit",
                                [design_id |-> design_id],
                                [lastrowid |-> Len(working.plans)], done.txn)
    /\ UNCHANGED <<oplog, nonCiasVars>>

\* conn.commit(); return cursor.lastrowid
CreatePlanCommit(c) ==
    /\ conns[c].op = "create_plan"
    /\ conns[c].pc = "commit"
    /\ db' = Commit(c)
    /\ Leave(c, [op |-> "create_plan",
                 design_id |-> conns[c].args.design_id,
                 result |-> conns[c].reg.lastrowid,
                 alone |-> conns[c].alone])
    /\ UNCHANGED nonCiasVars

(***************************************************************************)
(* update_global_summary(design_id, summary)                               *)
(***************************************************************************)
\* ids of the plans of a design
PlansOf(data, design_id) ==
    {i \in DOMAIN data.plans : data.plans[i].design_id = design_id}

\* ORDER BY id DESC LIMIT 1
LatestId(ids) == CHOOSE x \in ids : \A y \in ids : y <= x

\* SELECT id FROM plans WHERE design_id = ? ORDER BY id DESC LIMIT 1;
\* last_plan_id = row[0] if row else 1
UpdateGlobalSummarySelect(c) ==
    /\ CanStart(c)
    /\ \E design_id \in Designs :
          LET mine == PlansOf(db, design_id)
              last_plan_id == IF mine # {} THEN LatestId(mine) ELSE 1
          IN  conns' = Enter(c, "update_global_summary", "update",
                             [design_id |-> design_id, summary |-> "summary"],
                             [last_plan_id |-> last_plan_id], NoTxn)
    /\ UNCHANGED <<db, oplog, nonCiasVars>>

\* UPDATE designs SET global_summary = ?, last_summary_plan_id = ?, ...
UpdateGlobalSummaryUpdate(c) ==
    /\ conns[c].op = "update_global_summary"
    /\ conns[c].pc = "update"
    /\ CanWrite(c)
    /\ LET args == conns[c].args
           working ==
               [View(c) EXCEPT !.designs[args.design_id] =
                   [@ EXCEPT !.global_summary = args.summary,
                             !.last_summary_plan_id =
                                 <<conns[c].reg.last_plan_id>>]]
           done == Execute(c, "UPDATE", working)
       IN  /\ db' = done.db
           /\ conns' = [conns EXCEPT ![c].txn = done.txn, ![c].pc = "commit"]
    /\ UNCHANGED <<oplog, nonCiasVars>>

\* conn.commit()
UpdateGlobalSummaryCommit(c) ==
    /\ conns[c].op = "update_global_summary"
    /\ conns[c].pc = "commit"
    /\ db' = Commit(c)
    /\ Leave(c, [op |-> "update_global_summary",
                 design_id |-> conns[c].args.design_id,
                 alone |-> conns[c].alone])
    /\ UNCHANGED nonCiasVars

(***************************************************************************)
(* get_plan_count_since(design_id)                                         *)
(***************************************************************************)
\* get_last_summary_plan_id_in_design: SELECT last_summary_plan_id FROM
\* designs WHERE id = ?
GetLastSummaryPlanId(c) ==
    /\ CanStart(c)
    /\ \E design_id \in Designs :
          conns' = Enter(c, "get_plan_count_since", "count",
                         [design_id |-> design_id],
                         [plan_id |-> db.designs[design_id]
                                          .last_summary_plan_id], NoTxn)
    /\ UNCHANGED <<db, oplog, nonCiasVars>>

\* SELECT COUNT(*) FROM plans WHERE design_id = ? AND id > ?; a comparison
\* with NULL selects no row
GetPlanCountSince(c) ==
    /\ conns[c].op = "get_plan_count_since"
    /\ conns[c].pc = "count"
    /\ LET plan_id == conns[c].reg.plan_id
           design_id == conns[c].args.design_id
           rows == {i \in PlansOf(View(c), design_id) :
                       plan_id # Null /\ i > plan_id[1]}
       IN  Leave(c, [op |-> "get_plan_count_since",
                     design_id |-> design_id,
                     result |-> Cardinality(rows),
                     alone |-> conns[c].alone])
    /\ UNCHANGED <<db, nonCiasVars>>

(***************************************************************************)
(* update_pareto_frontiers(strata, new_frontiers)                          *)
(***************************************************************************)
\* DELETE FROM pareto_frontiers WHERE strata = ?
ParetoDelete(c) ==
    /\ CanStart(c)
    /\ CanWrite(c)
    /\ \E strata \in StrataSet, new_frontiers \in FrontierLists :
          LET working ==
                  [db EXCEPT !.pareto_frontiers =
                      SelectSeq(@, LAMBDA row : row.strata # strata)]
              done == Execute(c, "DELETE", working)
          IN  /\ db' = done.db
              /\ conns' = Enter(c, "update_pareto_frontiers", "insert",
                                [strata |-> strata,
                                 new_frontiers |-> new_frontiers],
                                [next |-> 1, before |-> db.pareto_frontiers],
                                done.txn)
    /\ UNCHANGED <<oplog, nonCiasVars>>

\* the INSERT of an item is accepted: rank INTEGER NOT NULL
Insertable(item) == item.rank # Null

\* INSERT INTO pareto_frontiers (experiment_id, rank, strata, ...)
ParetoInsert(c) ==
    /\ conns[c].op = "update_pareto_frontiers"
    /\ conns[c].pc = "insert"
    /\ conns[c].reg.next <= Len(conns[c].args.new_frontiers)
    /\ Insertable(conns[c].args.new_frontiers[conns[c].reg.next])
    /\ CanWrite(c)
    /\ LET item == conns[c].args.new_frontiers[conns[c].reg.next]
           view == View(c)
           working ==
               [view EXCEPT
                  !.pareto_seq = @ + 1,
                  !.pareto_frontiers =
                      Append(@, [id |-> view.pareto_seq + 1,
                                 experiment_id |-> item.experiment_id,
                                 rank |-> item.rank[1],
                                 strata |-> conns[c].args.strata])]
           done == Execute(c, "INSERT", working)
       IN  /\ db' = done.db
           /\ conns' = [conns EXCEPT ![c].txn = done.txn,
                                     ![c].reg.next = @ + 1]
    /\ UNCHANGED <<oplog, nonCiasVars>>

\* the INSERT of an item raises: conn.rollback(), then raise
ParetoRollback(c) ==
    /\ conns[c].op = "update_pareto_frontiers"
    /\ conns[c].pc = "insert"
    /\ conns[c].reg.next <= Len(conns[c].args.new_frontiers)
    /\ ~Insertable(conns[c].args.new_frontiers[conns[c].reg.next])
    /\ Leave(c, [op |-> "update_pareto_frontiers",
                 strata |-> conns[c].args.strata,
                 new_frontiers |-> conns[c].args.new_frontiers,
                 outcome |-> "raised",
                 alone |-> conns[c].alone])
    /\ UNCHANGED <<db, nonCiasVars>>

\* every item is inserted: conn.commit()
ParetoCommit(c) ==
    /\ conns[c].op = "update_pareto_frontiers"
    /\ conns[c].pc = "insert"
    /\ conns[c].reg.next > Len(conns[c].args.new_frontiers)
    /\ db' = Commit(c)
    /\ Leave(c, [op |-> "update_pareto_frontiers",
                 strata |-> conns[c].args.strata,
                 new_frontiers |-> conns[c].args.new_frontiers,
                 outcome |-> "ok",
                 alone |-> conns[c].alone])
    /\ UNCHANGED nonCiasVars

NextStore ==
    \E c \in Conns :
        \/ AppendSelectCounters(c)
        \/ AppendUpdatePlan(c)
        \/ AppendUpdateDesign(c)
        \/ AppendCommit(c)
        \/ CreatePlanInsert(c)
        \/ CreatePlanCommit(c)
        \/ UpdateGlobalSummarySelect(c)
        \/ UpdateGlobalSummaryUpdate(c)
        \/ UpdateGlobalSummaryCommit(c)
        \/ GetLastSummaryPlanId(c)
        \/ GetPlanCountSince(c)

\* callers of the plan and design methods
SpecStore == InitStore /\ [][NextStore]_vars

NextFrontiers ==
    \E c \in Conns :
        \/ ParetoDelete(c)
        \/ ParetoInsert(c)
        \/ ParetoRollback(c)
        \/ ParetoCommit(c)

\* callers of update_pareto_frontiers
SpecFrontiers == InitStore /\ [][NextFrontiers]_vars

\* the store keeps its shape
StoreTypeOK ==
    /\ DOMAIN db.designs = Designs
    /\ \A i \in DOMAIN db.plans : db.plans[i].design_id \in Designs
    /\ Cardinality({c \in Conns : conns[c].txn # NoTxn}) <= 1

\* every call completed so far ran without another call in progress
Serial == \A i \in DOMAIN oplog : oplog[i].alone

RECURSIVE SumTokens(_)
SumTokens(entries) ==
    IF entries = <<>> THEN 0
    ELSE Head(entries).token_used + SumTokens(Tail(entries))

\* the sum of the amounts of the completed append_plan_token_used calls
\* for a plan, and for the plans of a design
AppendedToPlan(plan_id) ==
    SumTokens(SelectSeq(oplog, LAMBDA e :
        e.op = "append_plan_token_used" /\ e.plan_id = plan_id))
AppendedToDesign(design_id) ==
    SumTokens(SelectSeq(oplog, LAMBDA e :
        /\ e.op = "append_plan_token_used"
        /\ db.plans[e.plan_id].design_id = design_id))

\* C27: after any sequence of append_plan_token_used calls made one after
\* the other, the token_total_used of every plan is the sum of the amounts
\* appended to it and the token_used of every design is the sum of the
\* amounts appended to its plans.
C27_TokenSums ==
    (AllIdle /\ Serial) =>
        /\ \A plan_id \in DOMAIN db.plans :
              db.plans[plan_id].token_total_used = AppendedToPlan(plan_id)
        /\ \A design_id \in Designs :
              db.designs[design_id].token_used = AppendedToDesign(design_id)

\* C28: when the append_plan_token_used calls made so far have finished,
\* overlapping or not, the token_total_used of every plan has grown by the
\* sum of their amounts: no update is lost.
C28_NoLostUpdate ==
    AllIdle =>
        \A plan_id \in DOMAIN db.plans :
            db.plans[plan_id].token_total_used = AppendedToPlan(plan_id)

\* the entries of a strata, in table order, without their row ids
EntriesOf(rows, strata) ==
    LET mine == SelectSeq(rows, LAMBDA row : row.strata = strata)
    IN  [i \in DOMAIN mine |-> [experiment_id |-> mine[i].experiment_id,
                                 rank |-> <<mine[i].rank>>]]

\* connection c finishes a call of update_pareto_frontiers in this step
ParetoCallEnds(c) ==
    conns[c].op = "update_pareto_frontiers" /\ conns'[c].op = "idle"

\* C29: update_pareto_frontiers replaces the frontier of a strata
\* atomically.  While the call runs the other connections read the table
\* as it was before the call; when it succeeds the entries of the strata
\* are exactly new_frontiers and the entries of every other strata are
\* unchanged; it raises exactly when an insert fails, and then the table is
\* what it was before the call.
C29_FrontierReplacedAtomically ==
    /\ [](\A c \in Conns :
             conns[c].op = "update_pareto_frontiers" =>
                 db.pareto_frontiers = conns[c].reg.before)
    /\ [][\A c \in Conns :
             ParetoCallEnds(c) =>
                 LET args == conns[c].args
                     before == conns[c].reg.before
                     entry == oplog'[Len(oplog')]
                     fails == \E i \in DOMAIN args.new_frontiers :
                                  ~Insertable(args.new_frontiers[i])
                 IN  /\ entry.outcome = IF fails THEN "raised" ELSE "ok"
                     /\ entry.outcome = "ok" =>
                           /\ EntriesOf(db'.pareto_frontiers, args.strata)
                                  = args.new_frontiers
                           /\ \A other \in StrataSet \ {args.strata} :
                                 SelectSeq(db'.pareto_frontiers,
                                           LAMBDA row : row.strata = other)
                                 = SelectSeq(before,
                                             LAMBDA row : row.strata = other)
                     /\ entry.outcome = "raised" =>
                           db'.pareto_frontiers = before]_vars

\* a strata held an entry, a call for it inserted its first item and
\* failed on the second, and the strata holds its old entry
C29_Witness ==
    /\ AllIdle
    /\ Len(oplog) >= 2
    /\ LET entry == oplog[Len(oplog)]
       IN  /\ entry.op = "update_pareto_frontiers"
           /\ entry.outcome = "raised"
           /\ Len(entry.new_frontiers) = 2
           /\ Insertable(entry.new_frontiers[1])
           /\ EntriesOf(db.pareto_frontiers, entry.strata) # <<>>
           /\ EntriesOf(db.pareto_frontiers, entry.strata)
                  # <<entry.new_frontiers[1]>>

\* the completed update_global_summary calls for a design before the k-th
\* call, and the create_plan calls for it between the j-th and the k-th
SummariesBefore(k, design_id) ==
    {j \in 1..(k - 1) : /\ oplog[j].op = "update_global_summary"
                        /\ oplog[j].design_id = design_id}
CreatedBetween(j, k, design_id) ==
    {i \in (j + 1)..(k - 1) : /\ oplog[i].op = "create_plan"
                              /\ oplog[i].design_id = design_id}

\* C30: in calls made one after the other, get_plan_count_since returns the
\* number of create_plan calls made for the design since its last
\* update_global_summary: 0 right after the summary, one more with each
\* plan created later, whether or not the design had a plan at the time of
\* the summary.
C30_PlanCountSinceSummary ==
    Serial =>
        \A k \in DOMAIN oplog :
            (/\ oplog[k].op = "get_plan_count_since"
             /\ SummariesBefore(k, oplog[k].design_id) # {}) =>
                oplog[k].result =
                    Cardinality(CreatedBetween(
                        LatestId(SummariesBefore(k, oplog[k].design_id)),
                        k, oplog[k].design_id))

(***************************************************************************)
(* CIAS-X workflow (src/src/cias_x/workflow.py): the LangGraph graph       *)
(* planner -> executor -> analyst with a conditional edge after the        *)
(* analyst.  A node returns a partial AgentState that the graph merges     *)
(* into the state; what the three agents return is an input of the model.  *)
(* The recursion limit that LangGraph applies to an invocation is a        *)
(* setting of the caller and is not part of the graph.                     *)
(***************************************************************************)
MaxSteps == 6             \* node executions in one invocation

StatusValues == {"running", "end"}
BudgetValues == {-1, 0, 1}
TokenValues == {0, 1}

\* the partial states a node can return, and the caller can start with
StateUpdates ==
    {status @@ budget @@ token :
        status \in {EmptyDict} \cup {[status |-> v] : v \in StatusValues},
        budget \in {EmptyDict}
                      \cup {[budget_remaining |-> v] : v \in BudgetValues},
        token \in {EmptyDict}
                     \cup {[token_remaining |-> v] : v \in TokenValues}}

\* the graph merges the keys a node returned into the state
Merge(state, update) == update @@ state

\* everything outside the workflow, at rest
CoreAtRest ==
    /\ subscribers = EmptySubscribers
    /\ history = <<>>
    /\ ready = <<>>
    /\ next_uid = 1
    /\ budget_max = 1
    /\ max_cycles = DefaultMaxCycles
    /\ current_cycle = 0
    /\ expected_experiments = 0
    /\ completed_experiments_cycle = 0
    /\ plan_retries = 0
    /\ stop_signal = FALSE
    /\ final_pareto = <<>>
    /\ final_insights = EmptyDict
    /\ world_model = <<>>
    /\ pareto_fronts = <<>>
    /\ llm_backend = [s \in LlmSteps |-> "answer"]
    /\ llm_calls = 0
    /\ main_pc = "start"
    /\ returned = <<>>
    /\ initial_configs = <<>>
    /\ max_cycles_arg = 0
    /\ planning = {}
    /\ running = {}
    /\ next_config = 1
    /\ last = Step("none", NoEvent)
    /\ handled_approvals = {}
    /\ calls = <<>>
    /\ registered = <<>>
    /\ db = <<>>
    /\ conns = <<>>
    /\ oplog = <<>>
    /\ sync = <<>>

\* workflow.set_entry_point("planner"); the caller invokes the compiled
\* graph with an initial state
InitWorkflow ==
    /\ CoreAtRest
    /\ wf_node = "planner"
    /\ wf_state \in StateUpdates
    /\ wf_trace = <<>>

nonWorkflowVars == <<busVars, directorVars, world_model, pareto_fronts,
                     llm_backend, llm_calls, mainVars, envVars, obsVars,
                     last, ciasVars, sync>>

\* variant: the tokens left are not looked at
WorkflowShouldContinue_IgnoreTokens(state) ==
    IF Get(state, "status", "") = "end" THEN "end"
    ELSE IF Get(state, "budget_remaining", 0) <= 0 THEN "end"
    ELSE "planner"

\* should_continue
WorkflowShouldContinue(state) ==
    IF Get(state, "status", "") = "end" THEN "end"
    ELSE IF \/ Get(state, "budget_remaining", 0) <= 0
            \/ Get(state, "token_remaining", 0) <= 0
         THEN "end"
    ELSE "planner"

\* a node runs and its result is merged
RunNode(name, update) ==
    /\ wf_node = name
    /\ Len(wf_trace) < MaxSteps
    /\ wf_state' = Merge(wf_state, update)
    /\ wf_trace' = Append(wf_trace, name)

\* planner_node, then the edge planner -> executor
PlannerNode ==
    /\ \E update \in StateUpdates : RunNode("planner", update)
    /\ wf_node' = "executor"
    /\ UNCHANGED nonWorkflowVars

\* executor_node, then the edge executor -> analyst
ExecutorNode ==
    /\ \E update \in StateUpdates : RunNode("executor", update)
    /\ wf_node' = "analyst"
    /\ UNCHANGED nonWorkflowVars

\* analyst_node, then the conditional edge {"planner": "planner",
\* "end": END}
AnalystNode ==
    /\ \E update \in StateUpdates : RunNode("analyst", update)
    /\ wf_node' = IF WorkflowShouldContinue(wf_state') = "planner"
                  THEN "planner" ELSE "END"
    /\ UNCHANGED nonWorkflowVars

NextWorkflow == PlannerNode \/ ExecutorNode \/ AnalystNode

SpecWorkflow == InitWorkflow /\ [][NextWorkflow]_vars

\* C31: the workflow starts at the planner, the executor follows the
\* planner and the analyst follows the executor; after the analyst the
\* planner runs again if and only if status is not "end" and
\* budget_remaining and token_remaining, each taken as 0 when absent, are
\* both above 0; otherwise the workflow is at its end, where no node runs.
C31_WorkflowOrder ==
    /\ [](wf_trace # <<>> => wf_trace[1] = "planner")
    /\ [](\A i \in 1..(Len(wf_trace) - 1) :
             wf_trace[i + 1] = CASE wf_trace[i] = "planner" -> "executor"
                                 [] wf_trace[i] = "executor" -> "analyst"
                                 [] wf_trace[i] = "analyst" -> "planner")
    /\ [][wf_trace' # wf_trace /\ wf_node = "analyst" =>
             LET budget == IF "budget_remaining" \in DOMAIN wf_state'
                           THEN wf_state'.budget_remaining ELSE 0
                 token == IF "token_remaining" \in DOMAIN wf_state'
                          THEN wf_state'.token_remaining ELSE 0
                 ended == /\ "status" \in DOMAIN wf_state'
                          /\ wf_state'.status = "end"
                 again == ~ended /\ budget > 0 /\ token > 0
             IN  /\ again <=> wf_node' = "planner"
                 /\ ~again <=> wf_node' = "END"]_vars
    /\ [][wf_node = "END" => UNCHANGED workflowVars]_vars

\* the workflow went round twice and ended after the second analyst with
\* budget left and no tokens left
C31_Witness ==
    /\ wf_node = "END"
    /\ wf_trace = <<"planner", "executor", "analyst",
                    "planner", "executor", "analyst">>
    /\ wf_state = [status |-> "running", budget_remaining |-> 1,
                   token_remaining |-> 0]

(***************************************************************************)
(* get_or_create_design(design_id) and _create_design()                    *)
(***************************************************************************)
DesignArgs == {-1, 0, 1, 3}     \* design_id arguments; rows 1 and 2 exist

\* `if design_id <= 0: _create_design()` names a function that is defined
\* nowhere (the method is self._create_design): evaluating the name raises
\* NameError.  Otherwise SELECT id, global_summary FROM designs WHERE
\* id = ?, and the row is returned when there is one.
GetOrCreateDesignSelect(c) ==
    /\ CanStart(c)
    /\ \E design_id \in DesignArgs :
          LET entered(pc, existed) ==
                  Enter(c, "get_or_create_design", pc,
                        [design_id |-> design_id],
                        [existed |-> existed, created |-> 0], NoTxn)
              entry(outcome, result, existed) ==
                  [op |-> "get_or_create_design", design_id |-> design_id,
                   outcome |-> outcome, result |-> result,
                   existed |-> existed, created |-> 0,
                   alone |-> entered("done", existed)[c].alone]
          IN  IF design_id <= 0
              THEN /\ oplog' = Append(oplog, entry("NameError", Null, FALSE))
                   /\ conns' = [entered("done", FALSE) EXCEPT ![c] = Idle]
              ELSE IF design_id \in DOMAIN db.designs
              THEN /\ oplog' = Append(oplog,
                                      entry("returned", <<design_id>>, TRUE))
                   /\ conns' = [entered("done", TRUE) EXCEPT ![c] = Idle]
              ELSE /\ oplog' = oplog
                   /\ conns' = entered("insert", FALSE)
    /\ UNCHANGED <<db, nonCiasVars>>

\* _create_design: INSERT INTO designs (global_summary) VALUES ('')
CreateDesignInsert(c) ==
    /\ conns[c].op = "get_or_create_design"
    /\ conns[c].pc = "insert"
    /\ CanWrite(c)
    /\ LET working == [View(c) EXCEPT !.designs = Append(@, NewDesign)]
           done == Execute(c, "INSERT", working)
       IN  /\ db' = done.db
           /\ conns' = [conns EXCEPT ![c].txn = done.txn,
                                     ![c].reg.created = @ + 1,
                                     ![c].pc = "commit"]
    /\ UNCHANGED <<oplog, nonCiasVars>>

\* _create_design: conn.commit()
CreateDesignCommit(c) ==
    /\ conns[c].op = "get_or_create_design"
    /\ conns[c].pc = "commit"
    /\ db' = Commit(c)
    /\ conns' = [conns EXCEPT ![c].txn = NoTxn, ![c].pc = "select"]
    /\ UNCHANGED <<oplog, nonCiasVars>>

\* _create_design: SELECT id, global_summary FROM designs ORDER BY id DESC
\* LIMIT 1; return [row[0], row[1]]
CreateDesignReturn(c) ==
    /\ conns[c].op = "get_or_create_design"
    /\ conns[c].pc = "select"
    /\ Leave(c, [op |-> "get_or_create_design",
                 design_id |-> conns[c].args.design_id,
                 outcome |-> "returned",
                 result |-> <<LatestId(DOMAIN View(c).designs)>>,
                 existed |-> conns[c].reg.existed,
                 created |-> conns[c].reg.created,
                 alone |-> conns[c].alone])
    /\ UNCHANGED <<db, nonCiasVars>>

NextDesigns ==
    \E c \in Conns :
        \/ GetOrCreateDesignSelect(c)
        \/ CreateDesignInsert(c)
        \/ CreateDesignCommit(c)
        \/ CreateDesignReturn(c)

\* callers of get_or_create_design
SpecDesigns == InitStore /\ [][NextDesigns]_vars

\* the number of rows of designs before the k-th completed call, in calls
\* made one after the other
DesignRowsBefore(k) ==
    Cardinality(Designs)
        + Cardinality({j \in 1..(k - 1) :
                          /\ oplog[j].op = "get_or_create_design"
                          /\ oplog[j].created = 1})

\* C32: in calls made one after the other, get_or_create_design returns the
\* design with the given id when it exists and creates no row; otherwise,
\* also for design_id <= 0, it creates exactly one row and returns that
\* row; no call creates more than one row.
C32_GetOrCreateDesign ==
    Serial =>
        \A k \in DOMAIN oplog :
            oplog[k].op = "get_or_create_design" =>
                LET call == oplog[k]
                    exists == call.design_id \in 1..DesignRowsBefore(k)
                IN  /\ call.outcome = "returned"
                    /\ call.created <= 1
                    /\ exists => /\ call.created = 0
                                 /\ call.result = <<call.design_id>>
                    /\ ~exists => /\ call.created = 1
                                  /\ call.result = <<DesignRowsBefore(k) + 1>>

(***************************************************************************)
(* The event-driven run with partial approvals.  The specification lets    *)
(* the Reviewer answer one PLAN_REQUESTED in parts ("retries or partial    *)
(* approvals may fire multiple times within one cycle", with feedback per  *)
(* rejected item): it approves some of the proposed configurations with    *)
(* one PLAN_APPROVED and keeps the others under review, to approve or      *)
(* reject them later.  The Planner never proposes more configurations      *)
(* than the budget of the request.                                         *)
(***************************************************************************)
ReviewerApprovePart(request, count) ==
    /\ request \in planning
    /\ count \in 1..(Get(request.payload, "budget", 0) - 1)
    /\ LET configs == [i \in 1..count |-> next_config + i - 1]
           event == Event("PLAN_APPROVED", [configs |-> configs],
                          "PlanReviewerAgent", next_uid)
           rest == [request EXCEPT !.payload.budget = @ - count]
       IN  /\ history' = Record(history, event)
           /\ ready' = ready \o Dispatch(event)
           /\ last' = Step("PlanReviewerAgent.approve", event)
           /\ planning' = (planning \ {request}) \cup {rest}
    /\ next_config' = next_config + count
    /\ next_uid' = next_uid + 1
    /\ UNCHANGED <<subscribers, running>>
    /\ UNCHANGED <<directorVars, storeVars, mainVars, obsVars>>

NextPartial ==
    \/ Next
    \/ \E request \in planning, count \in 1..PerCycleCap :
          ReviewerApprovePart(request, count)

\* a run with one initial configuration, one planning cycle and a budget
\* of at most one full plan
InitPartial ==
    /\ Init
    /\ budget_max <= PerCycleCap
    /\ Len(initial_configs) = 1
    /\ max_cycles_arg = 1
    /\ llm_backend = [s \in LlmSteps |-> "answer"]

SpecPartial == InitPartial /\ [][NextPartial]_vars

\* C33: every PLAN_REQUESTED event published by the Director carries a
\* budget between 1 and 3, also a retry published after further
\* experiments were persisted.
C33_PlanBudgetInRange ==
    \A i \in DOMAIN history :
        (history[i].topic = "PLAN_REQUESTED"
            /\ history[i].sender = "Director") =>
                history[i].payload.budget \in 1..PerCycleCap

\* C34: once the stop latch is set it stays set and the Director starts no
\* further cycle: current_cycle does not change, expected_experiments is
\* not reset and no task publishing a new cycle's PLAN_REQUESTED is
\* created, whatever event is handled afterwards.
C34_NoCycleAfterLatch ==
    /\ [](stop_signal =>
             TotalPersisted >= budget_max \/ current_cycle >= max_cycles)
    /\ [][stop_signal =>
             /\ stop_signal'
             /\ current_cycle' = current_cycle
             /\ expected_experiments' >= expected_experiments
             /\ completed_experiments_cycle' >= completed_experiments_cycle
             /\ ~NewCycleRequestCreated]_vars

\* with the latch set by the first insight of the cycle, a second insight
\* of the cycle was handled, and so was a PLAN_APPROVED that was published
\* after the first insight and therefore handled with the latch set
C34_Witness ==
    /\ stop_signal
    /\ last.handler = OnInsightGenerated
    /\ \E i, j \in HandledInsights :
          /\ i < j
          /\ history[i].payload.cycle = current_cycle
          /\ history[j].payload.cycle = current_cycle
          /\ \E approval \in handled_approvals :
                /\ approval.cycle = current_cycle
                /\ approval.id > history[i].id

\* the EXPERIMENT_COMPLETED event carries no result: the key is absent, or
\* its value is None or an empty dict
NoResult(event) ==
    \/ "result" \notin DOMAIN event.payload
    \/ event.payload.result = None
    \/ event.payload.result = EmptyDict

\* C35: handling an EXPERIMENT_COMPLETED event without a result leaves the
\* world model and every Director field unchanged and publishes nothing;
\* the handler task just ends.
C35_ResultlessCompletionIgnored ==
    [][(Handled(OnExperimentCompleted) /\ NoResult(last'.event)) =>
           /\ UNCHANGED <<world_model, directorVars, history, next_uid>>
           /\ ready' = Tail(ready)]_vars

\* a completion with an empty result was handled in a state where one more
\* counted result would have drained the batch and reached the budget
C35_Witness ==
    /\ last.handler = OnExperimentCompleted
    /\ "result" \in DOMAIN last.event.payload
    /\ last.event.payload.result = EmptyDict
    /\ expected_experiments = completed_experiments_cycle + 1
    /\ Len(world_model) + 1 = budget_max
    /\ history = <<>>
    /\ ready = <<>>

\* the events published in this step
NewEvents == SubSeq(history', Len(history) + 1, Len(history'))

\* C36: handling one EXPERIMENT_COMPLETED event publishes at most one
\* event, a STATE_UPDATED, and schedules at most one Analysis task, also
\* when the batch is drained and the budget ceiling is reached by the same
\* completion.
C36_AtMostOneTrigger ==
    [][Handled(OnExperimentCompleted) =>
           /\ Len(history') <= Len(history) + 1
           /\ history = SubSeq(history', 1, Len(history))
           /\ \A i \in DOMAIN NewEvents : NewEvents[i].topic = "STATE_UPDATED"
           /\ Len(ready') <= Len(Tail(ready)) + 1]_vars

\* a completion drained its batch and reached the budget ceiling at once,
\* and one STATE_UPDATED was published
C36_Witness ==
    /\ last.handler = OnExperimentCompleted
    /\ ~NoResult(last.event)
    /\ expected_experiments > 0
    /\ completed_experiments_cycle >= expected_experiments
    /\ Len(world_model) >= budget_max
    /\ Len(history) = 1
    /\ history[1].topic = "STATE_UPDATED"
    /\ Len(ready) = 1

(***************************************************************************)
(* AIScientist.run_sync: the sequential main loop.  The planner, the       *)
(* executor and the analyzer are called directly and each call returns.    *)
(***************************************************************************)
nonSyncVars == <<busVars, directorVars, llm_backend, mainVars, envVars,
                 obsVars, last, ciasVars, workflowVars>>

\* the planner is handed the number of configurations wanted and returns a
\* list; nothing in run_sync bounds its length
PlannerReturns == 0..(PerCycleCap + 1)

\* the locals at the start of run_sync; iterations counts the passes
\* through the body of the while loop
RunSyncEnter ==
    /\ sync = <<>>
    /\ sync' = [pc |-> "initial",
                budget_used |-> 0,
                cycle |-> 0,
                configs |-> initial_configs,
                pareto_set |-> <<>>,
                final_insights |-> EmptyDict,
                iterations |-> 0]
    /\ UNCHANGED <<world_model, pareto_fronts, llm_calls, nonSyncVars>>

\* for config in initial_configs: run, persist, count
RunSyncInitial ==
    /\ sync # <<>>
    /\ sync.pc = "initial"
    /\ IF sync.configs # <<>>
       THEN /\ world_model' =
                   Append(world_model, RunExperiment(Head(sync.configs)))
            /\ sync' = [sync EXCEPT !.budget_used = @ + 1,
                                    !.configs = Tail(@)]
       ELSE /\ sync' = [sync EXCEPT !.pc = "while"]
            /\ UNCHANGED world_model
    /\ UNCHANGED <<pareto_fronts, llm_calls, nonSyncVars>>

\* variant: the loop runs while budget is left
LoopCondition_BudgetOnly(budget_used, cycle) == budget_used < budget_max

\* while budget_used < self.budget_max and cycle < max_cycles
LoopCondition(budget_used, cycle) ==
    budget_used < budget_max /\ cycle < max_cycles_arg

\* the test of the while loop: cycle += 1 and on into the body, or the
\* return of (pareto_set, final_insights)
RunSyncWhile ==
    /\ sync # <<>>
    /\ sync.pc = "while"
    /\ IF LoopCondition(sync.budget_used, sync.cycle)
       THEN sync' = [sync EXCEPT !.pc = "plan",
                                 !.cycle = @ + 1,
                                 !.iterations = @ + 1]
       ELSE sync' = [sync EXCEPT !.pc = "returned"]
    /\ UNCHANGED <<world_model, pareto_fronts, llm_calls, nonSyncVars>>

\* new_configs = self.planner.plan_experiments(..., min(3, budget_remaining))
RunSyncPlan ==
    /\ sync # <<>>
    /\ sync.pc = "plan"
    /\ \E n \in PlannerReturns :
           sync' = [sync EXCEPT
                        !.pc = "execute",
                        !.configs = [i \in 1..n |-> Len(world_model) + i]]
    /\ UNCHANGED <<world_model, pareto_fronts, llm_calls, nonSyncVars>>

\* variant: the loop over new_configs has no budget check
BudgetReached_Never(budget_used) == FALSE

\* if budget_used >= self.budget_max: break
BudgetReached(budget_used) == budget_used >= budget_max

\* for config in new_configs: stop at the budget, else run, persist, count
RunSyncExecute ==
    /\ sync # <<>>
    /\ sync.pc = "execute"
    /\ IF sync.configs = <<>> \/ BudgetReached(sync.budget_used)
       THEN /\ sync' = [sync EXCEPT !.pc = "analyze"]
            /\ UNCHANGED world_model
       ELSE /\ world_model' =
                   Append(world_model, RunExperiment(Head(sync.configs)))
            /\ sync' = [sync EXCEPT !.budget_used = @ + 1,
                                    !.configs = Tail(@)]
    /\ UNCHANGED <<pareto_fronts, llm_calls, nonSyncVars>>

\* pareto_set, insights = self.analyzer.analyze(self.world_model, cycle);
\* final_insights = insights
RunSyncAnalyze ==
    /\ sync # <<>>
    /\ sync.pc = "analyze"
    /\ LET res == Analyze(world_model, sync.cycle)
       IN  /\ pareto_fronts' =
                  IF res.saved
                  THEN Append(pareto_fronts,
                              [cycle |-> sync.cycle,
                               pareto_ids |-> res.pareto_ids])
                  ELSE pareto_fronts
           /\ llm_calls' = llm_calls + res.llm_calls
           /\ sync' = [sync EXCEPT !.pc = "while",
                                   !.pareto_set = res.pareto_ids,
                                   !.final_insights = res.insights]
    /\ UNCHANGED <<world_model, nonSyncVars>>

NextSync ==
    \/ RunSyncEnter
    \/ RunSyncInitial
    \/ RunSyncWhile
    \/ RunSyncPlan
    \/ RunSyncExecute
    \/ RunSyncAnalyze

\* run_sync is one sequential call: it keeps running until it returns
SpecSync == Init /\ [][NextSync]_vars /\ WF_vars(NextSync)

\* an experiment is run inside the main loop in this step
ExecutedInLoop ==
    /\ sync # <<>>
    /\ sync.pc = "execute"
    /\ Len(world_model') = Len(world_model) + 1

\* C37: run_sync returns, whatever the planner returns, after at most
\* max_cycles passes through its main loop (none for a max_cycles below
\* 1); inside the main loop an experiment is run only while budget_used is
\* below budget_max; budget_used counts the experiments run, and after the
\* initial batch it never exceeds the larger of budget_max and the size of
\* the initial batch.
C37_RunSyncBounded ==
    /\ [](sync # <<>> =>
              /\ sync.iterations <= max_cycles_arg
              /\ sync.budget_used = Len(world_model)
              /\ sync.pc # "initial" =>
                     /\ sync.budget_used >= Len(initial_configs)
                     /\ sync.budget_used
                            <= Max(budget_max, Len(initial_configs)))
    /\ [][ExecutedInLoop => sync.budget_used < budget_max]_vars
    /\ <>(sync # <<>> /\ sync.pc = "returned")

\* run_sync returned after max_cycles passes in which the planner returned
\* nothing, the budget unspent
C37_Witness ==
    /\ sync # <<>>
    /\ sync.pc = "returned"
    /\ max_cycles_arg = MaxCyclesArg
    /\ sync.iterations = max_cycles_arg
    /\ sync.budget_used = Len(initial_configs)
    /\ sync.budget_used < budget_max

====
